---- MODULE Spec2Model ----
(***************************************************************************)
(* A state-machine model of the finDataAnalysisAgent repository.           *)
(*                                                                         *)
(* The repository holds two architectures.  The pipeline architecture      *)
(* (agent/, mcp/) is modelled by the MemoryStore, the SafePythonSandbox,   *)
(* the SQLGenerator and the AIReportAgent facade; the ReAct architecture   *)
(* (agents/) by the ConversationManager, the ReAct TaskDispatcher and      *)
(* run_react_agent.  Each component has its own next-state relation and    *)
(* its own specification; the variables of the other components stay at    *)
(* their idle values.                                                      *)
(*                                                                         *)
(* Text is modelled as a sequence of tokens.  A token is either a single   *)
(* character or a fixed literal of the program ("Final Answer:", the       *)
(* seed system prompt, ...); CharLen gives the number of characters a      *)
(* token stands for wherever the code measures len().                      *)
(***************************************************************************)
EXTENDS Integers, Sequences, FiniteSets, TLC

VARIABLES
    \* ---- agent/dialogue/memory_store.py : MemoryStore
    short_term_memory,  \* self._short_term_memory : key -> value
    long_term_memory,   \* self._long_term_memory  : list of items
    clock,              \* datetime.now(), as a logical clock
    memLast,            \* the last MemoryStore call: operation, arguments, result
    \* ---- mcp/python_sandbox/sandbox_core.py : SafePythonSandbox
    sbScript,           \* the script handed to run_script_in_sandbox
    sbTimeout,          \* self.timeout, in seconds
    sbTempFiles,        \* exec files lying in self.temp_dir
    sbWritten,          \* exec files written so far
    sbChildren,         \* child processes started so far
    sbRuns,             \* calls of run_script_in_sandbox so far
    sbLast,             \* the last call: what it returned or raised
    \* ---- mcp/nl2sql/sql_generator.py : SQLGenerator
    sqlInitialized,     \* self.initialized
    sqlTimeField,       \* self.module_config["default_time_field"]
    sqlTask,            \* the task handed to execute
    sqlExecuted,        \* the statements passed to _execute_sql so far
    sqlLast,            \* the last call and the envelope it returned
    \* ---- config/__init__.py and agent/agent_bootstrap.py : AIReportAgent
    cfgFiles,           \* the configuration documents on disk
    cfgDirsOk,          \* whether the configured directories can be created
    cfgCache,           \* the module-level caches _global_config, _llm_config, ...
    facExists,          \* whether a facade has been constructed
    facInitialized,     \* self.initialized
    facConfigs,         \* self.global_config, self.llm_config, self.scenario_mapping
    facModules,         \* the module instances that are not None
    facLast,            \* the last call: what it returned or raised
    \* ---- agents/react_agent.py : run_react_agent
    rxArgs,             \* the arguments of the call a caller is about to make
    rxLast,             \* the last call: its arguments, what it returned or raised
    \* ---- agents/conversation_manager.py, agents/task_dispatcher.py
    convFile,           \* the session file sessions/<id>.json
    convStart,          \* the manager's history when it was constructed
    convHistory,        \* manager.history
    convTrace,          \* the calls made on the manager since, in order
    convSecond,         \* a second manager constructed for the same session id
    convLast,           \* the last call: its arguments, what it returned or raised
    \* ---- agent/parser/scenario_matcher.py : ScenarioMatcher
    smMapping,          \* self._scene_mapping
    smHeap,             \* the params dicts alive, by index
    smTask,             \* the Task handed to match_scene_to_table
    smGiven,            \* what the params of that Task held when it was made
    smReturned,         \* what each call of match_scene_to_table returned or raised
    \* ---- agent/scheduler/task_dispatcher.py : TaskDispatcher
    pdPlan,             \* what each construction of a module comes to, in order
    pdTaskList,         \* the task list a caller holds
    pdInstances,        \* self.mcp_instances : kind -> instance
    pdMade,             \* module instances constructed so far
    pdAttempts,         \* constructions tried so far
    pdLog,              \* what was done to module instances, in order
    pdCalls,            \* calls made on the dispatcher so far
    pdLast,             \* the last call: its arguments, what it returned or raised
    \* ---- ReportAgent
    raLists,            \* the rule list objects
    raMapping,          \* the matcher's _scene_mapping: rule list index and field keys a scene
    raTask,             \* self._current_task
    raHanded,           \* the tasks handed over, with the rules they held then
    raAdapts,           \* adaptations and executions made
    raUpdates,          \* calls of update_scene_mapping made
    raLast,             \* the last call on the agent or the matcher
    \* ---- the configuration getters
    cfgLoaded,          \* what the first successful load of a document returned
    cfgLast,            \* the last call of a getter
    \* ---- PythonSandbox, the MCP module
    psInitialized,      \* self.initialized
    psKeepTemp,         \* self.module_config.get("save_temp_script")
    psTempScriptPath,   \* self.temp_script_path
    psFiles,            \* the script files on disk
    psMade,             \* the execute calls made: the file, save_script, whether it was reported
    psLast,             \* the last call on the module
    \* ---- NLParser and TaskStructor
    npLast              \* the last call on the parser or the structor

memVars == <<short_term_memory, long_term_memory, clock, memLast>>
sbVars  == <<sbScript, sbTimeout, sbTempFiles, sbWritten, sbChildren, sbRuns, sbLast>>

sqlVars == <<sqlInitialized, sqlTimeField, sqlTask, sqlExecuted, sqlLast>>

facVars == <<cfgFiles, cfgDirsOk, cfgCache, facExists, facInitialized, facConfigs,
             facModules, facLast>>

rxVars == <<rxArgs, rxLast>>

convVars == <<convFile, convStart, convHistory, convTrace, convSecond, convLast>>

smVars == <<smMapping, smHeap, smTask, smGiven, smReturned>>

pdVars == <<pdPlan, pdTaskList, pdInstances, pdMade, pdAttempts, pdLog, pdCalls, pdLast>>

raVars == <<raLists, raMapping, raTask, raHanded, raAdapts, raUpdates, raLast>>

cfgxVars == <<cfgLoaded, cfgLast>>

psVars == <<psInitialized, psKeepTemp, psTempScriptPath, psFiles, psMade, psLast>>

npVars == <<npLast>>

vars == <<memVars, sbVars, sqlVars, facVars, rxVars, convVars, smVars, pdVars, raVars, cfgxVars, psVars, npVars>>

\* The variables that do not belong to the component an action is part of.
MemFrame == UNCHANGED <<sbVars, sqlVars, facVars, rxVars, convVars, smVars, pdVars, raVars, cfgxVars, psVars, npVars>>
SbFrame  == UNCHANGED <<memVars, sqlVars, facVars, rxVars, convVars, smVars, pdVars, raVars, cfgxVars, psVars, npVars>>
SqlFrame == UNCHANGED <<memVars, sbVars, facVars, rxVars, convVars, smVars, pdVars, raVars, cfgxVars, psVars, npVars>>
FacFrame == UNCHANGED <<memVars, sbVars, sqlVars, rxVars, convVars, smVars, pdVars, raVars, cfgxVars, psVars, npVars>>
RxFrame  == UNCHANGED <<memVars, sbVars, sqlVars, facVars, convVars, smVars, pdVars, raVars, cfgxVars, psVars, npVars>>
ConvFrame == UNCHANGED <<memVars, sbVars, sqlVars, facVars, rxVars, smVars, pdVars, raVars, cfgxVars, psVars, npVars>>
SmFrame == UNCHANGED <<memVars, sbVars, sqlVars, facVars, rxVars, convVars, pdVars, raVars, cfgxVars, psVars, npVars>>
PdFrame == UNCHANGED <<memVars, sbVars, sqlVars, facVars, rxVars, convVars, smVars, raVars, cfgxVars, psVars, npVars>>
RaFrame == UNCHANGED <<memVars, sbVars, sqlVars, facVars, rxVars, convVars, smVars, pdVars, cfgxVars, psVars, npVars>>
CfgFrame == UNCHANGED <<memVars, sbVars, sqlVars, rxVars, convVars, smVars, pdVars, raVars, psVars, npVars>>
PsFrame == UNCHANGED <<memVars, sbVars, sqlVars, facVars, rxVars, convVars, smVars, pdVars, raVars, cfgxVars, npVars>>
NpFrame == UNCHANGED <<sbVars, sqlVars, facVars, rxVars, convVars, smVars, pdVars, raVars, cfgxVars, psVars>>

(***************************************************************************)
(* Python helpers                                                          *)
(***************************************************************************)

Min(a, b) == IF a < b THEN a ELSE b
Max(a, b) == IF a > b THEN a ELSE b

\* Python's index normalisation for the start of a slice s[start:].
PySliceStart(len, start) ==
    IF start < 0 THEN Max(len + start, 0) ELSE Min(start, len)

\* Python's s[start:] for a list s.
PySliceFrom(s, start) ==
    SubSeq(s, PySliceStart(Len(s), start) + 1, Len(s))

\* Python's s[:stop] for a list s.
PySliceTo(s, stop) ==
    SubSeq(s, 1, PySliceStart(Len(s), stop))

SetMin(S) == CHOOSE x \in S : \A y \in S : x <= y
SetMax(S) == CHOOSE x \in S : \A y \in S : x >= y

\* Python's "p in s" for strings: p is a contiguous part of s.
Contains(s, p) ==
    \E i \in 1 .. (Len(s) - Len(p) + 1) : SubSeq(s, i, i + Len(p) - 1) = p

\* The whitespace tokens: a blank and a line break.
IsWs(t) == t \in {"sp", "nl"}

\* Python's str.strip().
Strip(s) ==
    LET solid == {i \in 1 .. Len(s) : ~IsWs(s[i])}
    IN  IF solid = {} THEN <<>> ELSE SubSeq(s, SetMin(solid), SetMax(solid))

\* The concatenation of a list of texts.
RECURSIVE Concat(_)
Concat(ss) == IF ss = <<>> THEN <<>> ELSE Head(ss) \o Concat(Tail(ss))

(***************************************************************************)
(* MemoryStore  (src/agent/dialogue/memory_store.py)                       *)
(***************************************************************************)

MaxLong  == 3        \* long-term items the model appends before it stops adding
MaxKeep  == 3        \* largest keep_latest_n the model passes
MaxClock == 2        \* ticks of the logical clock

MemKeys    == {"user_input", "scene"}
MemValues  == {"v1", "v2"}
MemScenes  == {"sales", "cost"}
MemResults == {"r1"}
NoneVal    == "None"

\* A long-term item as add_long_term_memory builds it.
LongTermItem(scene, result, export_path, now) ==
    [scene |-> scene, result |-> result, export_path |-> export_path,
     create_time |-> now]

MemIdle ==
    /\ short_term_memory = <<>>
    /\ long_term_memory = <<>>
    /\ clock = 0
    /\ memLast = [op |-> "init", n |-> 0, pre |-> <<>>, ret |-> <<>>]

\* MemoryStore.__init__
MemInit == MemIdle

\* add_short_term_memory(key, value, overwrite)
add_short_term_memory(key, value, overwrite) ==
    /\ short_term_memory' =
          IF ~overwrite /\ key \in DOMAIN short_term_memory
          THEN short_term_memory
          ELSE [k \in (DOMAIN short_term_memory) \cup {key} |->
                   IF k = key THEN value ELSE short_term_memory[k]]
    /\ memLast' = [op |-> "add_short", n |-> 0, pre |-> long_term_memory, ret |-> <<>>]
    /\ UNCHANGED <<long_term_memory, clock>>
    /\ MemFrame

\* get_short_term_memory(key): the value, or None for an absent key;
\* get_short_term_memory(None): a copy of the whole map.
get_short_term_memory(key) ==
    /\ memLast' = [op |-> "get_short", n |-> 0, pre |-> long_term_memory,
                   ret |-> IF key = NoneVal
                           THEN <<short_term_memory>>
                           ELSE IF key \in DOMAIN short_term_memory
                                THEN <<short_term_memory[key]>>
                                ELSE <<NoneVal>>]
    /\ UNCHANGED <<short_term_memory, long_term_memory, clock>>
    /\ MemFrame

\* clear_short_term_memory(specific_keys); clearAll stands for specific_keys=None.
clear_short_term_memory(clearAll, specific_keys) ==
    /\ short_term_memory' =
          IF clearAll THEN <<>>
          ELSE [k \in (DOMAIN short_term_memory) \ specific_keys |-> short_term_memory[k]]
    /\ memLast' = [op |-> "clear_short", n |-> 0, pre |-> long_term_memory, ret |-> <<>>]
    /\ UNCHANGED <<long_term_memory, clock>>
    /\ MemFrame

\* add_long_term_memory(scene, result, export_path): append only.
add_long_term_memory(scene, result, export_path, tick) ==
    /\ Len(long_term_memory) < MaxLong
    /\ clock + tick <= MaxClock
    /\ clock' = clock + tick
    /\ long_term_memory' =
          Append(long_term_memory, LongTermItem(scene, result, export_path, clock'))
    /\ memLast' = [op |-> "add_long", n |-> 0, pre |-> long_term_memory, ret |-> <<>>]
    /\ UNCHANGED short_term_memory
    /\ MemFrame

\* The value get_long_term_memory(scene, latest_only) returns.
LongTermLookup(scene, latest_only) ==
    IF scene = NoneVal THEN long_term_memory
    ELSE LET scene_memory == SelectSeq(long_term_memory, LAMBDA item : item.scene = scene)
         IN  IF scene_memory = <<>> THEN <<>>
             ELSE IF latest_only THEN <<scene_memory[Len(scene_memory)]>>
             ELSE scene_memory

get_long_term_memory(scene, latest_only) ==
    /\ memLast' = [op |-> "get_long", n |-> 0, pre |-> long_term_memory,
                   ret |-> LongTermLookup(scene, latest_only)]
    /\ UNCHANGED <<short_term_memory, long_term_memory, clock>>
    /\ MemFrame

\* The list clear_expired_long_term_memory(keep_latest_n) leaves:
\*     if len(l) > keep_latest_n: l = l[-keep_latest_n:]
TrimmedLongTerm_KeepOldest(l, keep_latest_n) ==
    IF Len(l) > keep_latest_n THEN PySliceTo(l, keep_latest_n) ELSE l
TrimmedLongTerm(l, keep_latest_n) ==
    IF Len(l) > keep_latest_n THEN PySliceFrom(l, 0 - keep_latest_n) ELSE l

clear_expired_long_term_memory(keep_latest_n) ==
    /\ long_term_memory' = TrimmedLongTerm(long_term_memory, keep_latest_n)
    /\ memLast' = [op |-> "clear_expired", n |-> keep_latest_n,
                   pre |-> long_term_memory, ret |-> <<>>]
    /\ UNCHANGED <<short_term_memory, clock>>
    /\ MemFrame

MemAddShort ==
    \E key \in MemKeys, value \in MemValues, overwrite \in BOOLEAN :
        add_short_term_memory(key, value, overwrite)
MemGetShort ==
    \E key \in MemKeys \cup {NoneVal} : get_short_term_memory(key)
MemClearShort ==
    \E clearAll \in BOOLEAN, keys \in SUBSET MemKeys :
        clear_short_term_memory(clearAll, keys)
MemAddLong ==
    \E scene \in MemScenes, result \in MemResults, tick \in {0, 1} :
        add_long_term_memory(scene, result, NoneVal, tick)
MemGetLong ==
    \E scene \in MemScenes \cup {NoneVal}, latest_only \in BOOLEAN :
        get_long_term_memory(scene, latest_only)
MemClearExpired ==
    \E n \in (0 - 1) .. MaxKeep : clear_expired_long_term_memory(n)

NextMemory ==
    \/ MemAddShort
    \/ MemGetShort
    \/ MemClearShort
    \/ MemAddLong
    \/ MemGetLong
    \/ MemClearExpired

(***************************************************************************)
(* SafePythonSandbox  (src/mcp/python_sandbox/sandbox_core.py)             *)
(*                                                                         *)
(* A script is a text: a sequence of tokens, each a run of characters      *)
(* ("import", "os", ".", "(", ...), "sp" a blank, "nl" a line break and    *)
(* "dq", "sq", "bq" the double, single and back quote.                     *)
(* The screen's "in" tests are substring tests on that text.               *)
(***************************************************************************)

MaxStmts == 2        \* statements in a script the model runs
MaxRuns  == 2        \* calls of run_script_in_sandbox the model makes

\* DEFAULT_PYTHON_SANDBOX_CONFIG["forbidden_modules"]
forbidden_modules ==
    {"os", "subprocess", "socket", "shutil", "ctypes", "sysconfig", "pty"}

\* DEFAULT_PYTHON_SANDBOX_CONFIG["forbidden_functions"], each as its text
\* ("popen" holds "open", "execfile" holds "exec" and "file").
forbidden_functions ==
    {<<"system">>, <<"p", "open">>, <<"spawn">>, <<"fork">>, <<"exec">>,
     <<"eval">>, <<"exec", "file">>}

\* import_patterns with the fourth spelling written without its blank.
import_patterns_NoBlank(mod) ==
    << <<"import", "sp", mod>>,
       <<"from", "sp", mod, "sp", "import">>,
       <<"import", "sp", mod, "sp", "as">>,
       <<"from", "sp", mod, ".">> >>

\* import_patterns of _check_script_safety for one module, in list order.
import_patterns(mod) ==
    << <<"import", "sp", mod>>,
       <<"from", "sp", mod, "sp", "import">>,
       <<"import", "sp", mod, "sp", "as">>,
       <<"from", "sp", mod, "sp", ".">> >>

\* The first pattern of the list that the script holds (0: none).
FirstImportPattern(script_clean, mod) ==
    LET hits == {i \in 1 .. 4 : Contains(script_clean, import_patterns(mod)[i])}
    IN  IF hits = {} THEN 0 ELSE SetMin(hits)

\* dangerous_keywords of _check_script_safety.
dangerous_keywords ==
    {<<"open", "(">>, <<"file", "(">>, <<"os", ".", "remove">>,
     <<"os", ".", "rmdir">>, <<"shutil", ".", "rmtree">>}

\* What one check returns or raises.
SafetyVerdict(raised, ok, msg) == [raised |-> raised, ok |-> ok, msg |-> msg]

\* _check_script_safety(script): the verdicts it can produce.  The modules,
\* functions and keywords are Python sets, iterated in an order the hash seed
\* decides, so the first hit is any hit.  In step 2 the test
\*     not any([...]) in script_clean
\* evaluates any() of five non-empty strings, True, and then
\* "True in script_clean": a bool on the left of a str "in" raises TypeError.
CheckScriptSafety(script) ==
    LET script_clean == Strip(script)
        badMods  == {m \in forbidden_modules : FirstImportPattern(script_clean, m) # 0}
        badFuncs == {f \in forbidden_functions : Contains(script_clean, f)}
        badKeys  == {k \in dangerous_keywords : Contains(script_clean, k)}
    IN  IF script = <<>> \/ script_clean = <<>>
        THEN {SafetyVerdict("none", FALSE, <<"EMPTY_SCRIPT">>)}
        ELSE IF badMods # {}
        THEN {SafetyVerdict("none", FALSE,
                  <<"FORBIDDEN_MODULE", m>>
                      \o import_patterns(m)[FirstImportPattern(script_clean, m)]) :
              m \in badMods}
        ELSE IF badFuncs # {}
        THEN {SafetyVerdict("TypeError", FALSE, <<>>)}
        ELSE IF badKeys # {}
        THEN {SafetyVerdict("none", FALSE, <<"DANGEROUS_KEYWORD">> \o k) : k \in badKeys}
        ELSE {SafetyVerdict("none", TRUE, <<"SAFETY_OK">>)}

\* What _run_subprocess can come to: the child exits 0, exits non-zero, runs
\* into the timeout, or cannot be started.
SubprocessOutcomes == {"exit0", "nonzero", "timeout", "start_failed"}

\* DEFAULT_PYTHON_SANDBOX_CONFIG["timeout"]
DefaultSandboxTimeout == 30

\* _run_subprocess(exec_file_path): (success, output).
RunSubprocess_TimeoutAsFailure(outcome) ==
    CASE outcome = "exit0"        -> [ok |-> TRUE,  msg |-> <<"STDOUT_STDERR">>]
      [] outcome = "nonzero"      -> [ok |-> FALSE, msg |-> <<"RETURN_CODE", "STDOUT_STDERR">>]
      [] outcome = "timeout"      -> [ok |-> FALSE, msg |-> <<"RETURN_CODE", "STDOUT_STDERR">>]
      [] outcome = "start_failed" -> [ok |-> FALSE, msg |-> <<"START_FAILED">>]
RunSubprocess(outcome) ==
    CASE outcome = "exit0"        -> [ok |-> TRUE,  msg |-> <<"STDOUT_STDERR">>]
      [] outcome = "nonzero"      -> [ok |-> FALSE, msg |-> <<"RETURN_CODE", "STDOUT_STDERR">>]
      [] outcome = "timeout"      -> [ok |-> FALSE, msg |-> <<"TIMEOUT", ToString(sbTimeout)>>]
      [] outcome = "start_failed" -> [ok |-> FALSE, msg |-> <<"START_FAILED">>]

\* The statements the model builds scripts from: the four screened import
\* spellings of a module, and statements that are no screened import.
ImportStmtsOf(m) ==
    { <<"import", "sp", m>>,
      <<"from", "sp", m, "sp", "import">>,
      <<"import", "sp", m, "sp", "as">>,
      <<"from", "sp", m, "sp", ".">> }
ImportStmts ==
    UNION {ImportStmtsOf(m) :
           m \in {"os", "subprocess", "socket", "shutil", "ctypes", "sysconfig", "pty"}}
OtherStmts ==
    { <<"import", "sp", "pandas">>,
      <<"from", "sp", "os", ".", "path", "sp", "import", "sp", "join">>,
      <<"import", "sp", "sp", "os">>,
      <<"eval", "(", "x", ")">>,
      <<"def", "sp", "eval", "(">>,
      <<"sq", "eval", "sq">>,
      <<"f", "=", "open", "(", "x", ")">>,
      <<"x", "=", "1">>,
      <<"sp">> }
CoreStmts == ImportStmtsOf("os") \cup ImportStmtsOf("pty") \cup OtherStmts

\* The scripts of n statements of CoreStmts, one per line.
RECURSIVE ScriptsOf(_)
ScriptsOf(n) ==
    IF n = 0 THEN {<<>>}
    ELSE {IF s = <<>> THEN st ELSE s \o <<"nl">> \o st :
              s \in ScriptsOf(n - 1), st \in CoreStmts}

\* The scripts the model runs: up to MaxStmts core statements, and every
\* import statement alone, before and after every other statement.
Scripts ==
    UNION {ScriptsOf(n) : n \in 0 .. MaxStmts}
    \cup ImportStmts
    \cup {i \o <<"nl">> \o o : i \in ImportStmts, o \in OtherStmts}
    \cup {o \o <<"nl">> \o i : i \in ImportStmts, o \in OtherStmts}

SbNone == [op |-> "none", raised |-> "none", ok |-> FALSE, msg |-> <<>>,
           wroteFile |-> FALSE, startedChild |-> FALSE, child |-> "none"]

SbIdle ==
    /\ sbScript = <<>>
    /\ sbTimeout = DefaultSandboxTimeout
    /\ sbTempFiles = 0
    /\ sbWritten = 0
    /\ sbChildren = 0
    /\ sbRuns = 0
    /\ sbLast = SbNone

\* SafePythonSandbox.__init__, and the script the caller is about to run.
SbInit ==
    /\ sbScript \in Scripts
    /\ sbTimeout \in {DefaultSandboxTimeout, 1}
    /\ sbTempFiles = 0
    /\ sbWritten = 0
    /\ sbChildren = 0
    /\ sbRuns = 0
    /\ sbLast = SbNone

\* run_script_in_sandbox(script) when the safety check raises: nothing is
\* caught, the exception reaches the caller.
SbRunRaises(verdict) ==
    /\ verdict.raised # "none"
    /\ sbLast' = [op |-> "run", raised |-> verdict.raised, ok |-> FALSE, msg |-> <<>>,
                  wroteFile |-> FALSE, startedChild |-> FALSE, child |-> "none"]
    /\ UNCHANGED <<sbTempFiles, sbWritten, sbChildren>>

\* run_script_in_sandbox(script) when the script fails the safety check.
SbRunRejected(verdict) ==
    /\ verdict.raised = "none"
    /\ ~verdict.ok
    /\ sbLast' = [op |-> "run", raised |-> "none", ok |-> FALSE,
                  msg |-> <<"SAFETY_FAILED">> \o verdict.msg,
                  wroteFile |-> FALSE, startedChild |-> FALSE, child |-> "none"]
    /\ UNCHANGED <<sbTempFiles, sbWritten, sbChildren>>

\* run_script_in_sandbox(script) when the script passes: the exec file is
\* written, the child is run, the file is removed (rmOk: os.remove worked).
SbRunExecuted(verdict, outcome, rmOk) ==
    /\ verdict.raised = "none"
    /\ verdict.ok
    /\ sbWritten' = sbWritten + 1
    /\ sbChildren' = IF outcome = "start_failed" THEN sbChildren ELSE sbChildren + 1
    /\ sbTempFiles' = IF rmOk THEN sbTempFiles ELSE sbTempFiles + 1
    /\ sbLast' = [op |-> "run", raised |-> "none", ok |-> RunSubprocess(outcome).ok,
                  msg |-> <<IF RunSubprocess(outcome).ok THEN "RUN_OK" ELSE "RUN_ERROR">>
                              \o RunSubprocess(outcome).msg,
                  wroteFile |-> TRUE, startedChild |-> outcome # "start_failed",
                  child |-> outcome]

\* run_script_in_sandbox(script)
run_script_in_sandbox(script) ==
    /\ sbRuns < MaxRuns
    /\ sbRuns' = sbRuns + 1
    /\ \E verdict \in CheckScriptSafety(script) :
          \/ SbRunRaises(verdict)
          \/ SbRunRejected(verdict)
          \/ \E outcome \in SubprocessOutcomes, rmOk \in BOOLEAN :
                SbRunExecuted(verdict, outcome, rmOk)
    /\ UNCHANGED <<sbScript, sbTimeout>>
    /\ SbFrame

\* cleanup(): every file of the temp dir is removed.
cleanup ==
    /\ sbTempFiles' = 0
    /\ sbLast' = [SbNone EXCEPT !.op = "cleanup"]
    /\ UNCHANGED <<sbScript, sbTimeout, sbWritten, sbChildren, sbRuns>>
    /\ SbFrame

SbRun == run_script_in_sandbox(sbScript)
SbCleanup == cleanup

NextSandbox ==
    \/ SbRun
    \/ SbCleanup

(***************************************************************************)
(* SQLGenerator  (src/mcp/nl2sql/sql_generator.py)                         *)
(*                                                                         *)
(* SQL text is modelled character by character, so that letter case is     *)
(* what str.upper() makes of it.                                           *)
(***************************************************************************)

MaxFields == 2       \* columns in a field mapping the model passes

LowerLetters == <<"a", "b", "c", "d", "e", "f", "g", "h", "i", "j", "k", "l", "m", "n", "o", "p", "q", "r", "s", "t", "u", "v", "w", "x", "y", "z">>
UpperLetters == <<"A", "B", "C", "D", "E", "F", "G", "H", "I", "J", "K", "L", "M", "N", "O", "P", "Q", "R", "S", "T", "U", "V", "W", "X", "Y", "Z">>

\* str.upper() and str.lower() on one character.
ToUpper(c) ==
    IF \E i \in 1 .. 26 : LowerLetters[i] = c
    THEN UpperLetters[CHOOSE i \in 1 .. 26 : LowerLetters[i] = c] ELSE c
ToLower(c) ==
    IF \E i \in 1 .. 26 : UpperLetters[i] = c
    THEN LowerLetters[CHOOSE i \in 1 .. 26 : UpperLetters[i] = c] ELSE c

\* str.upper()
Upper(s) == [i \in 1 .. Len(s) |-> ToUpper(s[i])]

\* ",".join(parts)
RECURSIVE JoinComma(_)
JoinComma(parts) ==
    IF parts = <<>> THEN <<>>
    ELSE IF Len(parts) = 1 THEN parts[1]
    ELSE parts[1] \o <<",">> \o JoinComma(Tail(parts))

\* module_config.get("default_time_field", "create_time")
DefaultTimeField == <<"c", "r", "e", "a", "t", "e", "_", "t", "i", "m", "e">>

\* _generate_sql(query_demand, wide_table, time_range, field_mapping):
\*   f"SELECT {fields} FROM {wide_table} WHERE {time_field} LIKE '%{time_range}%';"
\* field_mapping is given by its values, in the mapping's order.
GenerateSql(query_demand, wide_table, time_range, field_mapping, time_field) ==
    LET fields == IF field_mapping # <<>> THEN JoinComma(field_mapping) ELSE <<"*">>
    IN  Concat(<< <<"S", "E", "L", "E", "C", "T", " ">>, fields, <<" ", "F", "R", "O", "M", " ">>, wide_table,
                  <<" ", "W", "H", "E", "R", "E", " ">>, time_field, <<" ", "L", "I", "K", "E", " ", "'", "%">>, time_range,
                  <<"%", "'", ";">> >>)

\* dangerous_keywords of _verify_sql.
sql_dangerous_keywords ==
    { <<"D", "R", "O", "P">>, <<"D", "E", "L", "E", "T", "E">>,
      <<"T", "R", "U", "N", "C", "A", "T", "E">>, <<"A", "L", "T", "E", "R">> }

\* _verify_sql without the upper(): the keywords are looked for as written.
VerifySql_CaseSensitive(sql) ==
    ~\E keyword \in sql_dangerous_keywords : Contains(sql, keyword)

\* _verify_sql(sql): not any(keyword in sql.upper() for keyword in dangerous_keywords)
VerifySql(sql) ==
    ~\E keyword \in sql_dangerous_keywords : Contains(Upper(sql), keyword)

\* _standardize_output(status, data, error_msg), with the fields execute fills.
SqlEnvelope(status, task_id, error, sql, count) ==
    [mcp_module |-> "SQLGenerator", task_id |-> task_id, status |-> status,
     error_msg |-> error, generated_sql |-> sql, data_count |-> count]

SqlNoCall == [op |-> "none", ret |-> SqlEnvelope("", "", "", <<>>, 0), ok |-> FALSE]

\* The words the model puts into a task: every letter case of every
\* dangerous keyword, keywords inside longer words, and harmless words.
RECURSIVE Cased(_)
Cased(w) ==
    IF w = <<>> THEN {<<>>}
    ELSE {<<c>> \o r : c \in {Head(w), ToLower(Head(w))}, r \in Cased(Tail(w))}

HotWords ==
    UNION {Cased(k) : k \in sql_dangerous_keywords}
    \cup { <<"d", "e", "l", "e", "t", "e", "d", "_", "a", "t">>, <<"t", ";", "D", "r", "o", "p", " ", "t", "a", "b", "l", "e", " ", "t">>,
           <<"x", "_", "a", "l", "T", "e", "r">> }
\* A few of them, for the slots other than the table name.
HotSample ==
    { <<"d", "r", "o", "p">>, <<"D", "R", "O", "P">>, <<"D", "e", "l", "e", "t", "e">>, <<"d", "E", "l", "E", "t", "E">>,
      <<"t", "r", "u", "n", "c", "a", "t", "e">>, <<"T", "R", "U", "N", "C", "a", "t", "e">>,
      <<"a", "l", "t", "e", "r">>, <<"a", "L", "T", "E", "R">> }
PlainWords == { <<"c", "o", "s", "t">>, <<"D", "r", "_", "o", "p">>, <<"2", "0", "2", "4">> }
PlainCols  == { <<"a", "m", "o", "u", "n", "t">>, <<"k", "i", "n", "d">> }

\* The field mappings: up to n plain columns, at most one of them replaced
\* by a hot word.
RECURSIVE PlainLists(_)
PlainLists(n) ==
    IF n = 0 THEN {<<>>}
    ELSE PlainLists(n - 1)
         \cup {Append(l, c) : l \in {x \in PlainLists(n - 1) : Len(x) = n - 1}, c \in PlainCols}
FieldMappings ==
    PlainLists(MaxFields)
    \cup UNION {{[l EXCEPT ![i] = h] : i \in 1 .. Len(l), h \in HotSample} :
                    l \in {x \in PlainLists(MaxFields) :
                               x # <<>> /\ \A j \in 1 .. Len(x) : x[j] = <<"a", "m", "o", "u", "n", "t">>}}

SqlTask(task_id, query_demand, wide_table, time_range, field_mapping) ==
    [task_id |-> task_id, query_demand |-> query_demand, wide_table |-> wide_table,
     time_range |-> time_range, field_mapping |-> field_mapping]

\* The tasks: plain ones, tasks lacking a core parameter, and tasks with a
\* hot word in one slot.
SqlTasks ==
    {SqlTask(id, qd, wt, tr, fm) :
        id \in {"unknown", "t1"}, qd \in {<<>>, <<"q">>}, wt \in PlainWords \cup {<<>>},
        tr \in {<<>>, <<"2", "0", "2", "4">>}, fm \in PlainLists(MaxFields)}
    \cup {SqlTask("t1", <<"q">>, h, <<"2", "0", "2", "4">>, <<>>) : h \in HotWords}
    \cup {SqlTask("t1", <<"q">>, <<"c", "o", "s", "t">>, h, <<>>) : h \in HotSample}
    \cup {SqlTask("t1", <<"q">>, <<"c", "o", "s", "t">>, <<"2", "0", "2", "4">>, fm) : fm \in FieldMappings}

\* The module configurations init may find: table_meta present or not, and
\* the time field.
SqlTimeFields == {DefaultTimeField, <<"a", "l", "t", "e", "r", "e", "d", "_", "a", "t">>}

SqlIdle ==
    /\ sqlInitialized = FALSE
    /\ sqlTimeField = DefaultTimeField
    /\ sqlTask = SqlTask("unknown", <<>>, <<>>, <<>>, <<>>)
    /\ sqlExecuted = {}
    /\ sqlLast = SqlNoCall

\* SQLGenerator.__init__, and the task the caller is about to hand in.
SqlInit ==
    /\ sqlInitialized = FALSE
    /\ sqlTimeField = DefaultTimeField
    /\ sqlTask \in SqlTasks
    /\ sqlExecuted = {}
    /\ sqlLast = SqlNoCall

\* init(module_config): fails (returns false) when the configuration cannot be
\* loaded or holds no table_meta.
sql_init(loadOk, hasTableMeta, time_field) ==
    /\ IF loadOk /\ hasTableMeta
       THEN /\ sqlInitialized' = TRUE
            /\ sqlTimeField' = time_field
            /\ sqlLast' = [SqlNoCall EXCEPT !.op = "init", !.ok = TRUE]
       ELSE /\ UNCHANGED <<sqlInitialized, sqlTimeField>>
            /\ sqlLast' = [SqlNoCall EXCEPT !.op = "init", !.ok = FALSE]
    /\ UNCHANGED <<sqlTask, sqlExecuted>>
    /\ SqlFrame

\* execute(task_dict)
sql_execute(task) ==
    /\ IF ~sqlInitialized
       THEN /\ sqlLast' = [op |-> "execute", ok |-> FALSE,
                           ret |-> SqlEnvelope("failed", "", "NOT_INITIALIZED", <<>>, 0)]
            /\ UNCHANGED sqlExecuted
       ELSE IF task.query_demand = <<>> \/ task.wide_table = <<>>
       THEN /\ sqlLast' = [op |-> "execute", ok |-> FALSE,
                           ret |-> SqlEnvelope("failed", task.task_id, "MISSING_PARAMS", <<>>, 0)]
            /\ UNCHANGED sqlExecuted
       ELSE LET generated_sql ==
                    GenerateSql(task.query_demand, task.wide_table, task.time_range,
                                task.field_mapping, sqlTimeField)
            IN  IF ~VerifySql(generated_sql)
                THEN /\ sqlLast' = [op |-> "execute", ok |-> FALSE,
                                    ret |-> SqlEnvelope("failed", task.task_id,
                                                        "SQL_NOT_COMPLIANT", <<>>, 0)]
                     /\ UNCHANGED sqlExecuted
                ELSE /\ sqlExecuted' = sqlExecuted \cup {generated_sql}
                     /\ sqlLast' = [op |-> "execute", ok |-> TRUE,
                                    ret |-> SqlEnvelope("success", task.task_id, "",
                                                        generated_sql, 3)]
    /\ UNCHANGED <<sqlInitialized, sqlTimeField, sqlTask>>
    /\ SqlFrame

\* close()
sql_close ==
    /\ sqlInitialized' = FALSE
    /\ sqlLast' = [SqlNoCall EXCEPT !.op = "close", !.ok = TRUE]
    /\ UNCHANGED <<sqlTimeField, sqlTask, sqlExecuted>>
    /\ SqlFrame

SqlDoInit ==
    \E loadOk \in BOOLEAN, hasTableMeta \in BOOLEAN, time_field \in SqlTimeFields :
        sql_init(loadOk, hasTableMeta, time_field)
SqlDoExecute == sql_execute(sqlTask)
SqlDoClose == sql_close

NextSql ==
    \/ SqlDoInit
    \/ SqlDoExecute
    \/ SqlDoClose

(***************************************************************************)
(* AIReportAgent, the bootstrap facade  (src/agent/agent_bootstrap.py)     *)
(* and the configuration caches it reads  (src/config/__init__.py)         *)
(*                                                                         *)
(* A configuration document on disk is "missing", "empty" (loads to {}),   *)
(* "partial" (loads to a mapping without the block the facade requires)    *)
(* or "valid".  A cache holds "none" ({}), "partial" or "valid".           *)
(***************************************************************************)

CfgDocs == {"global", "llm", "scenario"}
CfgFileStates == {"missing", "empty", "partial", "valid"}
CfgNoCache == [d \in CfgDocs |-> "none"]

\* load_yaml_config(path): FileNotFoundError for a missing file, else the
\* mapping (yaml.safe_load(f) or {}).
load_yaml_config(files, doc) ==
    IF files[doc] = "missing" THEN [raised |-> "FileNotFoundError", value |-> "none"]
    ELSE IF files[doc] = "empty" THEN [raised |-> "none", value |-> "none"]
    ELSE [raised |-> "none", value |-> files[doc]]

\* get_global_config / get_llm_config / get_scenario_widetable_mapping:
\* load only while the cache is empty; the result and the cache afterwards.
get_config(cache, files, doc) ==
    IF cache[doc] # "none"
    THEN [raised |-> "none", value |-> cache[doc], cache |-> cache]
    ELSE LET loaded == load_yaml_config(files, doc)
         IN  [raised |-> loaded.raised, value |-> loaded.value,
              cache |-> IF loaded.raised = "none"
                        THEN [cache EXCEPT ![doc] = loaded.value] ELSE cache]

\* The text tokens a reply starts with.
FacCross == "CROSS"     \* the sign that opens every failure reply
FacCheck == "CHECK"     \* the sign that opens a success reply

FacInputs == {<<>>, <<"sp">>, <<"sp", "nl">>, <<"x">>, <<"sp", "x", "sp">>}

\* What report_agent.process_task can do with an input.
FacProcessOutcomes ==
    {"TaskExecuteException", "Exception", "empty", "failed", "success"}

FacNoCall == [op |-> "none", raised |-> "none", ret |-> "None", text |-> <<>>,
              closed |-> FALSE]

FacIdle ==
    /\ cfgFiles = [d \in CfgDocs |-> "valid"]
    /\ cfgDirsOk = TRUE
    /\ cfgCache = CfgNoCache
    /\ facExists = FALSE
    /\ facInitialized = FALSE
    /\ facConfigs = CfgNoCache
    /\ facModules = {}
    /\ facLast = FacNoCall

\* Before the facade is constructed: the documents on disk are in any state.
FacInit ==
    /\ cfgFiles \in [CfgDocs -> CfgFileStates]
    /\ cfgDirsOk \in BOOLEAN
    /\ cfgCache = CfgNoCache
    /\ facExists = FALSE
    /\ facInitialized = FALSE
    /\ facConfigs = CfgNoCache
    /\ facModules = {}
    /\ facLast = FacNoCall

\* AIReportAgent.__init__ with _init_required_dirs: any failure of loading the
\* global configuration or creating a directory is raised as
\* FileOperateException, and no facade comes into being.
FacConstruct ==
    /\ ~facExists
    /\ LET g == get_config(cfgCache, cfgFiles, "global")
           failed == g.raised # "none" \/ (g.value = "valid" /\ ~cfgDirsOk)
       IN  /\ cfgCache' = g.cache
           /\ facExists' = ~failed
           /\ facLast' = [FacNoCall EXCEPT !.op = "__init__",
                              !.raised = IF failed THEN "FileOperateException" ELSE "none"]
    /\ facInitialized' = FALSE
    /\ facConfigs' = CfgNoCache
    /\ facModules' = {}
    /\ UNCHANGED <<cfgFiles, cfgDirsOk>>
    /\ FacFrame

\* _load_all_configs: the three documents in turn, then the three checks.
\* The result names what was raised, the caches and the facade's copies.
LoadAllConfigs(cache, configs) ==
    LET g == get_config(cache, cfgFiles, "global")
        l == get_config(g.cache, cfgFiles, "llm")
        s == get_config(l.cache, cfgFiles, "scenario")
    IN  IF g.raised # "none"
        THEN [raised |-> g.raised, cache |-> g.cache, configs |-> configs]
        ELSE IF l.raised # "none"
        THEN [raised |-> l.raised, cache |-> l.cache,
              configs |-> [configs EXCEPT !["global"] = g.value]]
        ELSE IF s.raised # "none"
        THEN [raised |-> s.raised, cache |-> s.cache,
              configs |-> [configs EXCEPT !["global"] = g.value, !["llm"] = l.value]]
        ELSE [raised |-> IF g.value = "none" \/ l.value # "valid" \/ s.value # "valid"
                         THEN "ConfigException" ELSE "none",
              cache |-> s.cache,
              configs |-> [global |-> g.value, llm |-> l.value, scenario |-> s.value]]

\* The steps of init after the configuration, in order, with what each
\* constructs and what its constructor calls raise:
\*   ContextManager(max_context_length=...) and NLParser(llm=..., ...) pass
\*   keywords their constructors do not take.
FacInitSteps ==
    << [name |-> "_init_llm", builds |-> {"llm_instance"}, raises |-> "none"],
       [name |-> "_init_dialogue_modules", builds |-> {}, raises |-> "TypeError"],
       [name |-> "_init_parser_modules", builds |-> {}, raises |-> "TypeError"],
       [name |-> "_init_scheduler_modules",
        builds |-> {"task_dispatcher", "result_assembler"}, raises |-> "none"],
       [name |-> "_init_report_agent", builds |-> {}, raises |-> "TypeError"] >>

\* Run the steps from the i-th on: what was raised and what got built.
RECURSIVE RunInitSteps(_, _)
RunInitSteps(i, built) ==
    IF i > Len(FacInitSteps) THEN [raised |-> "none", built |-> built]
    ELSE IF FacInitSteps[i].raises # "none"
    THEN [raised |-> FacInitSteps[i].raises, built |-> built \cup FacInitSteps[i].builds]
    ELSE RunInitSteps(i + 1, built \cup FacInitSteps[i].builds)

\* close(), on a facade holding the modules built and the flag initialized:
\* closes the dispatcher's instances, then calls clear_context() on the
\* context manager and clear_short_memory() on the memory store when they
\* exist (neither class has the method), then clears the flag.
CloseOutcome(built, initialized) ==
    IF "context_manager" \in built \/ "memory_store" \in built
    THEN [raised |-> "AttributeError", initialized |-> initialized]
    ELSE [raised |-> "none", initialized |-> FALSE]

\* The except branches of init: self.close(), then return False.
InitExcept_NoClose(built, initialized) ==
    [raised |-> "none", ret |-> "False", closed |-> FALSE, initialized |-> initialized]
InitExcept(built, initialized) ==
    [raised |-> CloseOutcome(built, initialized).raised,
     ret |-> IF CloseOutcome(built, initialized).raised = "none" THEN "False" ELSE "None",
     closed |-> TRUE,
     initialized |-> CloseOutcome(built, initialized).initialized]

\* init(): true at once when initialized; else the steps, and on any
\* exception close() and false.
fac_init ==
    /\ facExists
    /\ IF facInitialized
       THEN /\ facLast' = [FacNoCall EXCEPT !.op = "init", !.ret = "True"]
            /\ UNCHANGED <<cfgCache, facInitialized, facConfigs, facModules>>
       ELSE LET c == LoadAllConfigs(cfgCache, facConfigs)
                r == IF c.raised # "none" THEN [raised |-> c.raised, built |-> facModules]
                     ELSE RunInitSteps(1, facModules)
            IN  /\ cfgCache' = c.cache
                /\ facConfigs' = c.configs
                /\ facModules' = r.built
                /\ IF r.raised = "none"
                   THEN /\ facInitialized' = TRUE
                        /\ facLast' = [FacNoCall EXCEPT !.op = "init", !.ret = "True"]
                   ELSE \E e \in {InitExcept(r.built, facInitialized)} :
                        /\ facInitialized' = e.initialized
                        /\ facLast' = [FacNoCall EXCEPT !.op = "init", !.ret = e.ret,
                                           !.raised = e.raised, !.closed = e.closed]
    /\ UNCHANGED <<cfgFiles, cfgDirsOk, facExists>>
    /\ FacFrame

\* _format_reply(task_result), by the sign the reply opens with.
FormatReply(outcome) ==
    IF outcome = "success" THEN <<FacCheck, "x">> ELSE <<FacCross, "x">>

\* chat(user_input)
fac_chat(user_input, outcome) ==
    /\ facExists
    /\ IF ~facInitialized
       THEN facLast' = [FacNoCall EXCEPT !.op = "chat", !.raised = "TaskExecuteException"]
       ELSE IF Strip(user_input) = <<>>
       THEN facLast' = [FacNoCall EXCEPT !.op = "chat", !.ret = "str",
                            !.text = <<FacCross, "EMPTY_INPUT">>]
       ELSE IF outcome \in {"TaskExecuteException", "Exception"}
       THEN facLast' = [FacNoCall EXCEPT !.op = "chat", !.ret = "str",
                            !.text = <<FacCross, outcome>>]
       ELSE facLast' = [FacNoCall EXCEPT !.op = "chat", !.ret = "str",
                            !.text = FormatReply(outcome)]
    /\ UNCHANGED <<cfgFiles, cfgDirsOk, cfgCache, facExists, facInitialized,
                   facConfigs, facModules>>
    /\ FacFrame

\* close(): closes what exists and clears the flag.
fac_close ==
    /\ facExists
    /\ facInitialized' = CloseOutcome(facModules, facInitialized).initialized
    /\ facLast' = [FacNoCall EXCEPT !.op = "close", !.closed = TRUE,
                       !.raised = CloseOutcome(facModules, facInitialized).raised]
    /\ UNCHANGED <<cfgFiles, cfgDirsOk, cfgCache, facExists, facConfigs, facModules>>
    /\ FacFrame

FacDoInit == fac_init
FacDoChat == \E user_input \in FacInputs, outcome \in FacProcessOutcomes :
                 fac_chat(user_input, outcome)
FacDoClose == fac_close

NextFacade ==
    \/ FacConstruct
    \/ FacDoInit
    \/ FacDoChat
    \/ FacDoClose

(***************************************************************************)
(* The ReAct loop  (src/agents/react_agent.py)                             *)
(*                                                                         *)
(* A text is a sequence of tokens.  "FA" is the literal "Final Answer:",   *)
(* "fa" the same words in lower case, "ACT" the literal "Action:", "J" a   *)
(* well-formed JSON object, "bad" a text json.loads refuses, "dq" a double *)
(* quote, "bs" a backslash, "sur" a lone surrogate code point, "LONG" a    *)
(* text of 3000 letters, and a tool name or "x" a run of word characters.  *)
(***************************************************************************)

MaxIter == 2         \* largest max_iterations, and longest reply script, the model passes

\* config.AGENT.max_iterations, the default of run_react_agent.
AgentMaxIterations == 15

Msg(role, content) == [role |-> role, content |-> content]

\* SYSTEM_PROMPT and the fixed texts of the loop.
SYSTEM_PROMPT == <<"SYSTEM_PROMPT">>
RxNudge       == <<"NUDGE">>            \* "请继续思考或给出 Final Answer。"
RxUnfinished  == <<"UNFINISHED">>       \* "任务未完成。"

\* TOOL_DICT: the names of the registered tools.
TOOL_DICT ==
    {<<"python_executor">>, <<"db_query">>, <<"word_generator">>, <<"excel_handler">>}

\* The tokens \w matches.
IsWordTok(t) ==
    t \in {"python_executor", "db_query", "word_generator", "excel_handler",
           "nope", "x", "Thought", "LONG", "simple", "SIMPLE", "complex"}

\* The first index from k on whose token is not whitespace (not a word
\* token), or Len + 1.
SkipWs(r, k) ==
    LET rest == {i \in k .. Len(r) : ~IsWs(r[i])}
    IN  IF rest = {} THEN Len(r) + 1 ELSE SetMin(rest)
SkipWord(r, k) ==
    LET rest == {i \in k .. Len(r) : ~IsWordTok(r[i])}
    IN  IF rest = {} THEN Len(r) + 1 ELSE SetMin(rest)

\* FINAL_ANSWER_PATTERN = r"Final Answer:\s*(.+)" with DOTALL: the leftmost
\* literal that has anything after it; the group is the rest without its
\* leading whitespace, or the last whitespace when the rest is all whitespace.
FinalStarts(r) == {i \in 1 .. Len(r) - 1 : r[i] = "FA"}
FinalGroup(r) ==
    LET i == SetMin(FinalStarts(r))
        g == SkipWs(r, i + 1)
    IN  IF g > Len(r) THEN <<r[Len(r)]>> ELSE SubSeq(r, g, Len(r))

\* ACTION_PATTERN = r"Action:\s*(\w+)\s*\[(.+?)\]" with DOTALL, tried at i:
\* the name, and the shortest non-empty blob that a "]" follows.
ActionAt(r, i) ==
    LET a == SkipWs(r, i + 1)
        e == SkipWord(r, a)
        b == SkipWs(r, e)
        closes == {c \in b + 2 .. Len(r) : r[c] = "]"}
    IN  [ok   |-> /\ r[i] = "ACT"
                  /\ e > a
                  /\ b <= Len(r)
                  /\ r[b] = "["
                  /\ closes # {},
         name |-> SubSeq(r, a, e - 1),
         blob |-> IF closes = {} THEN <<>> ELSE SubSeq(r, b + 1, SetMin(closes) - 1)]
ActionStarts(r) == {i \in 1 .. Len(r) : ActionAt(r, i).ok}

\* json.loads(params_str), with {} on JSONDecodeError.
JsonLoadsOrEmpty(params_str) ==
    IF params_str = <<"J">> THEN "J" ELSE "EMPTY"

\* parse_llm_response(response): the Final Answer pattern is tested first.
parse_llm_response_ActionFirst(response) ==
    IF ActionStarts(response) # {}
    THEN LET m == ActionAt(response, SetMin(ActionStarts(response)))
         IN  [type |-> "action", content |-> <<>>,
              tool_name |-> Strip(m.name), params |-> JsonLoadsOrEmpty(Strip(m.blob))]
    ELSE IF FinalStarts(response) # {}
    THEN [type |-> "final", content |-> Strip(FinalGroup(response)),
          tool_name |-> <<>>, params |-> "EMPTY"]
    ELSE [type |-> "none", content |-> Strip(response),
          tool_name |-> <<>>, params |-> "EMPTY"]
parse_llm_response(response) ==
    IF FinalStarts(response) # {}
    THEN [type |-> "final", content |-> Strip(FinalGroup(response)),
          tool_name |-> <<>>, params |-> "EMPTY"]
    ELSE IF ActionStarts(response) # {}
    THEN LET m == ActionAt(response, SetMin(ActionStarts(response)))
         IN  [type |-> "action", content |-> <<>>,
              tool_name |-> Strip(m.name), params |-> JsonLoadsOrEmpty(Strip(m.blob))]
    ELSE [type |-> "none", content |-> Strip(response),
          tool_name |-> <<>>, params |-> "EMPTY"]

\* execute_action(tool_name, params); toolOutcome says whether tool.run
\* raises.
execute_action_Unchecked(tool_name, params, toolOutcome) ==
    IF toolOutcome = "raise" THEN <<"ERR_TOOL_FAILED", "x">>
    ELSE <<"TOOL_OUTPUT", params>>
execute_action(tool_name, params, toolOutcome) ==
    IF tool_name \notin TOOL_DICT
    THEN <<"ERR_UNKNOWN_TOOL", "sq">> \o tool_name \o <<"sq", "STOP">>
    ELSE IF toolOutcome = "raise" THEN <<"ERR_TOOL_FAILED", "x">>
    ELSE <<"TOOL_OUTPUT", params>>

\* What the LLM service does with one request: it answers with a content or
\* the request fails.
LlmOk(content) == [ok |-> TRUE, content |-> content]
LlmFail == [ok |-> FALSE, content |-> <<>>]

\* call_deepseek(messages): the content stripped, or RuntimeError.
call_deepseek(outcome) ==
    IF outcome.ok THEN [raised |-> "none", value |-> Strip(outcome.content)]
    ELSE [raised |-> "RuntimeError", value |-> <<>>]

\* The outcome of the k-th request under a script of outcomes: the script's
\* last outcome repeats.
OutcomeAt(script, k) == script[Min(k, Len(script))]

\* The loop condition with one iteration more than asked for.
LoopContinues_Inclusive(iteration, max_iterations) == iteration <= max_iterations

\* while iteration < max_iterations
LoopContinues(iteration, max_iterations) == iteration < max_iterations

\* The final branch appending the parsed answer in place of the raw reply.
FinalEntries_Parsed(response, content) == <<Msg("assistant", content)>>

\* The entries the final branch appends.
FinalEntries(response, content) == <<Msg("assistant", response)>>

\* The value of a one-element set: v \in {e} binds the value of e once.
TheOnly(S) == CHOOSE v \in S : TRUE

\* The while loop of run_react_agent from the given iteration on: the call,
\* then the parse of the response, then the branch taken.
RECURSIVE ReactLoop(_, _, _, _, _, _)
ReactBranch(history, script, iteration, max_iterations, toolOutcome, toolRuns, response, parsed) ==
    IF parsed.type = "final"
    THEN [raised |-> "none", isNone |-> FALSE, final_answer |-> parsed.content,
          history |-> history \o FinalEntries(response, parsed.content),
          calls |-> iteration, toolRuns |-> toolRuns]
    ELSE IF parsed.type = "action"
    THEN TheOnly({ReactLoop(h, script, iteration, max_iterations, toolOutcome, t) :
                     h \in {history \o << Msg("assistant", response),
                                          Msg("user", <<"OBS">> \o
                                              execute_action(parsed.tool_name, parsed.params,
                                                             toolOutcome)) >>},
                     t \in {toolRuns + 1}})
    ELSE TheOnly({ReactLoop(h, script, iteration, max_iterations, toolOutcome, toolRuns) :
                     h \in {history \o << Msg("assistant", response),
                                          Msg("user", RxNudge) >>}})

ReactLoop(history, script, iteration, max_iterations, toolOutcome, toolRuns) ==
    IF ~LoopContinues(iteration, max_iterations)
    THEN [raised |-> "none", isNone |-> TRUE, final_answer |-> <<>>,
          history |-> history, calls |-> iteration, toolRuns |-> toolRuns]
    ELSE TheOnly({IF r.raised # "none"
                  THEN [raised |-> r.raised, isNone |-> TRUE, final_answer |-> <<>>,
                        history |-> history, calls |-> i, toolRuns |-> toolRuns]
                  ELSE TheOnly({ReactBranch(history, script, i, max_iterations, toolOutcome,
                                            toolRuns, r.value, parsed) :
                                   parsed \in {parse_llm_response(r.value)}}) :
                     i \in {iteration + 1},
                     r \in {call_deepseek(OutcomeAt(script, iteration + 1))}})

\* run_react_agent(query, history, max_iterations); history None is
\* historyIsNone.
run_react_agent(query, historyIsNone, history, max_iterations, script, toolOutcome) ==
    LET h0 == IF historyIsNone THEN <<Msg("system", SYSTEM_PROMPT)>> ELSE history
        r  == TheOnly({ReactLoop(h1, script, 0, max_iterations, toolOutcome, 0) :
                          h1 \in {Append(h0, Msg("user", query))}})
    IN  TheOnly({[raised |-> v.raised,
                  ret |-> IF v.isNone THEN Strip(RxUnfinished) ELSE Strip(v.final_answer),
                  history |-> v.history, calls |-> v.calls, toolRuns |-> v.toolRuns] :
                    v \in {r}})

\* The contents the LLM answers with.
LlmContents ==
    { <<"Thought", "nl", "FA", "sp", "x">>,
      <<"sp", "FA", "nl", "x", "dq", "nl", "x", "sp">>,
      <<"FA">>,
      <<"fa", "sp", "x">>,
      <<"x">>,
      <<"ACT", "sp", "db_query", "[", "J", "]">>,
      <<"ACT", "nope", "sp", "[", "bad", "]", "nl">>,
      <<"ACT", "sp", "db_query", "[", "J", "]", "nl", "FA", "sp", "x", "x">> }
LlmOutcomes == {LlmOk(c) : c \in LlmContents} \cup {LlmFail}

\* The scripts of at most n outcomes.
RECURSIVE LlmScripts(_)
LlmScripts(n) ==
    IF n = 1 THEN {<<o>> : o \in LlmOutcomes}
    ELSE LlmScripts(n - 1)
         \cup {Append(s, o) : s \in {t \in LlmScripts(n - 1) : Len(t) = n - 1},
                              o \in LlmOutcomes}

RxQueries == {<<"x">>, <<"x", "sp", "kw_excel">>}
RxSeeds   == {<<Msg("system", <<"x">>)>>,
              <<Msg("system", <<"x">>), Msg("user", <<"x">>), Msg("assistant", <<"x">>)>>}
ToolOutcomes == {"ok", "raise"}

RxNoCall ==
    [op |-> "none", raised |-> "none", ret |-> <<>>, query |-> <<>>,
     historyIsNone |-> FALSE, seed |-> <<>>, max_iterations |-> 0, script |-> <<>>,
     history |-> <<>>, calls |-> 0, toolRuns |-> 0]

RxNoArgs ==
    [query |-> <<>>, historyIsNone |-> TRUE, history |-> <<>>, capGiven |-> FALSE,
     max_iterations |-> 0, script |-> <<LlmFail>>, toolOutcome |-> "ok"]

RxIdle ==
    /\ rxArgs = RxNoArgs
    /\ rxLast = RxNoCall

\* A caller about to call run_react_agent: with a history of its own or
\* none, with a cap or leaving it to the default.
RxInit ==
    /\ rxArgs \in
          {[query |-> q, historyIsNone |-> n, history |-> h, capGiven |-> g,
            max_iterations |-> m, script |-> s, toolOutcome |-> t] :
               q \in RxQueries, n \in BOOLEAN, h \in RxSeeds \cup {<<>>}, g \in BOOLEAN,
               m \in 0 .. MaxIter, s \in LlmScripts(MaxIter), t \in ToolOutcomes}
    /\ rxArgs.historyIsNone = (rxArgs.history = <<>>)
    /\ ~rxArgs.capGiven => rxArgs.max_iterations = 0
    /\ rxLast = RxNoCall

RxCall(max_iterations) ==
    /\ rxLast.op = "none"
    /\ \E r \in {run_react_agent(rxArgs.query, rxArgs.historyIsNone, rxArgs.history,
                                   max_iterations, rxArgs.script, rxArgs.toolOutcome)} :
           rxLast' = [op |-> "run_react_agent", raised |-> r.raised, ret |-> r.ret,
                      query |-> rxArgs.query, historyIsNone |-> rxArgs.historyIsNone,
                      seed |-> rxArgs.history, max_iterations |-> max_iterations,
                      script |-> rxArgs.script, history |-> r.history, calls |-> r.calls,
                      toolRuns |-> r.toolRuns]
    /\ UNCHANGED rxArgs
    /\ RxFrame

\* run_react_agent(query, history, max_iterations)
RxRun == rxArgs.capGiven /\ RxCall(rxArgs.max_iterations)

\* run_react_agent(query, history): the default cap is in force.
RxRunDefault == ~rxArgs.capGiven /\ RxCall(AgentMaxIterations)

NextReactLoop ==
    \/ RxRun
    \/ RxRunDefault

(***************************************************************************)
(* ConversationManager  (src/agents/conversation_manager.py)               *)
(* and the ReAct TaskDispatcher  (src/agents/task_dispatcher.py)           *)
(*                                                                         *)
(* The session document is modelled entry by entry; the JSON text of each  *)
(* role and content is computed token by token, with "dq" the quote, "bs"  *)
(* the backslash and "nl" the line break that JSON escapes.                *)
(***************************************************************************)

MaxOps == 2          \* calls made on one manager

\* The number of characters of a token; a token not listed is one character.
CharLen(t) ==
    CASE t = "LONG" -> 3000
      [] t \in {"FA", "fa", "OBS"} -> 13
      [] t \in {"NUDGE", "SEED"} -> 22
      [] t = "ERRTEXT" -> 20
      [] t = "python_executor" -> 15
      [] t \in {"word_generator", "excel_handler"} -> 14
      [] t = "TOOL_OUTPUT" -> 10
      [] t \in {"db_query", "Thought", "ERR_UNKNOWN_TOOL"} -> 8
      [] t \in {"ACT", "SIMPLE_FAILED", "ERR_TOOL_FAILED"} -> 7
      [] t = "UNFINISHED" -> 6
      [] t = "SUMMARY_PREFIX" -> 5
      [] t = "nope" -> 4
      [] t = "kw_db" -> 3
      [] t \in {"kw_query", "kw_report", "kw_code", "kw_analysis", "J", "EMPTY"} -> 2
      [] OTHER -> 1

\* len(content)
RECURSIVE TextLen(_)
TextLen(text) ==
    IF text = <<>> THEN 0
    ELSE CharLen(text[1]) + TheOnly({TextLen(t) : t \in {Tail(text)}})

\* sum(len(msg["content"]) for msg in history[lo-1:hi]), by halves.
RECURSIVE SumContentLen(_, _, _)
SumContentLen(history, lo, hi) ==
    IF lo > hi THEN 0
    ELSE IF lo = hi THEN TextLen(history[lo].content)
    ELSE SumContentLen(history, lo, (lo + hi) \div 2)
         + SumContentLen(history, (lo + hi) \div 2 + 1, hi)

\* The default max_tokens of summarize_if_long.
DefaultMaxTokens == 1500

\* The history a manager starts with.
ConvSeed == <<Msg("system", <<"SEED">>)>>

\* json.dump without the escaping of the double quote.
JsonEscapeTok_NoQuote(t) ==
    IF t = "bs" THEN <<"bs", "bs">>
    ELSE IF t = "nl" THEN <<"bs", "n">>
    ELSE <<t>>

\* json.dump of one character of a string (ensure_ascii=False).
JsonEscapeTok(t) ==
    IF t = "dq" THEN <<"bs", "dq">>
    ELSE IF t = "bs" THEN <<"bs", "bs">>
    ELSE IF t = "nl" THEN <<"bs", "n">>
    ELSE <<t>>

\* json.dump of a string: the quoted, escaped text.
RECURSIVE JsonEscape(_)
JsonEscape(text) ==
    IF text = <<>> THEN <<>>
    ELSE JsonEscapeTok(text[1]) \o TheOnly({JsonEscape(t) : t \in {Tail(text)}})
JsonString(text) == <<"dq">> \o JsonEscape(text) \o <<"dq">>

\* json.load of a string.  A token is escaped when an odd number of
\* backslashes stands right before it; the string ends at the first quote
\* that is not escaped, and that quote has to be the last token.
JsonBackslashesBefore(s, i) ==
    (i - 1) - SetMax({k \in 0 .. i - 1 : k = 0 \/ s[k] # "bs"})
JsonEscaped(s, i) == JsonBackslashesBefore(s, i) % 2 = 1
JsonParseString(s) ==
    LET ends == {i \in 2 .. Len(s) : s[i] = "dq" /\ ~JsonEscaped(s, i)}
        close == IF ends = {} THEN 0 ELSE SetMin(ends)
        inner == {i \in 2 .. close - 1 : JsonEscaped(s, i) \/ s[i] # "bs"}
        kept  == SelectSeq([i \in 1 .. Len(s) |-> i], LAMBDA i : i \in inner)
    IN  IF \/ Len(s) < 2
           \/ s[1] # "dq"
           \/ close # Len(s)
           \/ \E i \in inner : IF JsonEscaped(s, i) THEN s[i] \notin {"dq", "bs", "n"}
                               ELSE s[i] = "nl"
        THEN [ok |-> FALSE, text |-> <<>>]
        ELSE [ok |-> TRUE,
              text |-> [k \in 1 .. Len(kept) |->
                           IF JsonEscaped(s, kept[k]) /\ s[kept[k]] = "n" THEN "nl"
                           ELSE s[kept[k]]]]

\* json.dump(self.history, f, ensure_ascii=False, indent=2), entry by entry.
JsonDump(history) ==
    [i \in 1 .. Len(history) |->
        [role |-> JsonString(<<history[i].role>>),
         content |-> JsonString(history[i].content)]]

\* json.load(f): the history, or JSONDecodeError.
JsonLoad(doc) ==
    LET parsed == [i \in 1 .. Len(doc) |->
                      [role |-> JsonParseString(doc[i].role),
                       content |-> JsonParseString(doc[i].content)]]
    IN  TheOnly({IF \A i \in 1 .. Len(p) :
                        p[i].role.ok /\ Len(p[i].role.text) = 1 /\ p[i].content.ok
                 THEN [raised |-> "none",
                       history |-> [i \in 1 .. Len(p) |->
                                       Msg(p[i].role.text[1], p[i].content.text)]]
                 ELSE [raised |-> "JSONDecodeError", history |-> <<>>] :
                    p \in {parsed}})

\* The session file: absent, a whole document, or the part of a document
\* written before the write failed.
ConvNoFile == [state |-> "absent", doc |-> <<>>]

\* save_session(): a lone surrogate cannot be encoded as UTF-8; the write
\* raises and leaves the entries written before it.
save_session(history) ==
    LET bad == {i \in 1 .. Len(history) :
                   \E j \in 1 .. Len(history[i].content) : history[i].content[j] = "sur"}
    IN  IF bad = {}
        THEN [raised |-> "none", file |-> [state |-> "whole", doc |-> JsonDump(history)]]
        ELSE [raised |-> "UnicodeEncodeError",
              file |-> [state |-> "part",
                        doc |-> JsonDump(SubSeq(history, 1, SetMin(bad) - 1))]]

\* ConversationManager(session_id): the seed, replaced by the document of
\* the session file when there is one.
NewManager(file) ==
    IF file.state = "absent" THEN [raised |-> "none", history |-> ConvSeed]
    ELSE IF file.state = "part" THEN [raised |-> "JSONDecodeError", history |-> <<>>]
    ELSE JsonLoad(file.doc)

\* append_message(role, content): append, then save.
append_message(history, role, content) ==
    TheOnly({[raised |-> s.raised, history |-> h, file |-> s.file] :
                h \in {Append(history, Msg(role, content))},
                s \in {save_session(Append(history, Msg(role, content)))}})

\* sum(len(msg["content"]) for msg in self.history) > max_tokens * 4
OverBudget(history, max_tokens) ==
    SumContentLen(history, 1, Len(history)) > max_tokens * 4

\* summarize_if_long(max_tokens): over budget, the summary the LLM gives and
\* history[-5:]; nothing is saved.
summarize_if_long(history, max_tokens, outcome) ==
    IF OverBudget(history, max_tokens)
    THEN TheOnly({IF summary.raised # "none"
                  THEN [raised |-> summary.raised, history |-> history, calls |-> 1]
                  ELSE [raised |-> "none",
                        history |-> <<Msg("system", <<"SUMMARY_PREFIX">> \o summary.value)>>
                                    \o PySliceFrom(history, 0 - 5),
                        calls |-> 1] :
                     summary \in {call_deepseek(outcome)}})
    ELSE [raised |-> "none", history |-> history, calls |-> 0]

\* str.lower()
Lower(s) == [i \in 1 .. Len(s) |-> ToLower(s[i])]

\* keywords_complex of dispatch: "数据库", "查询", "报告", "代码", "分析",
\* "excel", "word".
keywords_complex ==
    { <<"kw_db">>, <<"kw_query">>, <<"kw_report">>, <<"kw_code">>, <<"kw_analysis">>,
      <<"e", "x", "c", "e", "l">>, <<"w", "o", "r", "d">> }

\* any(word in user_query.lower() for word in keywords_complex)
HasComplexKeyword(user_query) ==
    \E word \in keywords_complex : Contains(Lower(user_query), word)

\* The classification dispatch asks the LLM for:
\* call_deepseek(classify_prompt).strip().lower(), "simple" when the call fails.
ClassifyByLlm_FailureComplex(outcome) ==
    TheOnly({IF r.raised # "none" THEN <<"c", "o", "m", "p", "l", "e", "x">> ELSE Lower(Strip(r.value)) :
                r \in {call_deepseek(outcome)}})
ClassifyByLlm(outcome) ==
    TheOnly({IF r.raised # "none" THEN <<"s", "i", "m", "p", "l", "e">> ELSE Lower(Strip(r.value)) :
                r \in {call_deepseek(outcome)}})

\* What the calls made on a manager do, as the model draws them.
ConvAppends ==
    { [role |-> "user", content |-> <<"x">>],
      [role |-> "assistant", content |-> <<"x", "dq", "bs", "n", "nl", "bs", "dq">>],
      [role |-> "user", content |-> <<"sur">>] }
ConvBudgets == {1, DefaultMaxTokens}
SummaryOutcomes == {LlmOk(<<"x", "sp">>), LlmFail}
DispatchQueries == {<<"x">>, <<"LONG", "sp">> \o <<"E", "x", "c", "e", "l">>}
ClassifyOutcomes ==
    { LlmOk(<<"s", "i", "m", "p", "l", "e">>), LlmOk(<<"sp">> \o <<"S", "i", "m", "p", "l", "e">> \o <<"nl">>),
      LlmOk(<<"c", "o", "m", "p", "l", "e", "x">>), LlmOk(<<"x">>), LlmFail }
SimpleOutcomes == {LlmOk(<<"x", "nl">>), LlmFail}
DispatchRuns ==
    { [script |-> <<LlmOk(<<"Thought", "nl", "FA", "sp", "x">>)>>, toolOutcome |-> "ok"],
      [script |-> <<LlmOk(<<"ACT", "sp", "db_query", "[", "J", "]">>),
                    LlmOk(<<"FA", "sp", "x">>)>>, toolOutcome |-> "ok"],
      [script |-> <<LlmOk(<<"x">>)>>, toolOutcome |-> "ok"],
      [script |-> <<LlmFail>>, toolOutcome |-> "ok"],
      [script |-> <<LlmOk(<<"ACT", "sp", "db_query", "[", "J", "]">>), LlmFail>>,
       toolOutcome |-> "raise"] }

ConvNoCall ==
    [op |-> "none", raised |-> "none", ret |-> <<>>, pre |-> <<>>, query |-> <<>>,
     path |-> "", max_tokens |-> 0, clsCalls |-> 0, clsFailed |-> FALSE,
     llmCalls |-> 0, sumCalls |-> 0]
ConvNoSecond == [made |-> FALSE, raised |-> "none", history |-> <<>>]

ConvIdle ==
    /\ convFile = ConvNoFile
    /\ convStart = ConvSeed
    /\ convHistory = ConvSeed
    /\ convTrace = <<>>
    /\ convSecond = ConvNoSecond
    /\ convLast = ConvNoCall

\* A manager just constructed: the session is new, or a document an earlier
\* manager saved is loaded.
ConvInit ==
    /\ convFile \in
          {ConvNoFile,
           save_session(ConvSeed \o <<Msg("user", <<"x">>), Msg("assistant", <<"x">>)>>).file}
    /\ convStart = NewManager(convFile).history
    /\ convHistory = convStart
    /\ convTrace = <<>>
    /\ convSecond = ConvNoSecond
    /\ convLast = ConvNoCall

\* What a call leaves behind: the manager's history, the file, the record of
\* the call.  A second manager made before the call is let go.
ConvDone(history, file, last) ==
    /\ convHistory' = history
    /\ convFile' = file
    /\ convLast' = last
    /\ convTrace' = Append(convTrace, [op |-> last.op, raised |-> last.raised])
    /\ convSecond' = ConvNoSecond
    /\ UNCHANGED convStart
    /\ ConvFrame

\* manager.append_message(role, content)
ConvAppend ==
    /\ Len(convTrace) < MaxOps
    /\ \E m \in ConvAppends :
       \E a \in {append_message(convHistory, m.role, m.content)} :
           ConvDone(a.history, a.file,
                    [ConvNoCall EXCEPT !.op = "append_message", !.raised = a.raised,
                                       !.pre = convHistory])

\* manager.summarize_if_long(max_tokens)
ConvSummarize ==
    /\ Len(convTrace) < MaxOps
    /\ \E max_tokens \in ConvBudgets :
       \E outcome \in IF OverBudget(convHistory, max_tokens) THEN SummaryOutcomes
                      ELSE {LlmFail} :
       \E s \in {summarize_if_long(convHistory, max_tokens, outcome)} :
           ConvDone(s.history, convFile,
                    [ConvNoCall EXCEPT !.op = "summarize_if_long", !.raised = s.raised,
                                       !.pre = convHistory, !.max_tokens = max_tokens,
                                       !.sumCalls = s.calls])

\* ConversationManager(session_id) for the same session: a second manager.
ConvNew ==
    /\ \E n \in {NewManager(convFile)} :
           convSecond' = [made |-> n.raised = "none", raised |-> n.raised,
                          history |-> n.history]
    /\ convLast' = [ConvNoCall EXCEPT !.op = "new_manager", !.pre = convHistory]
    /\ UNCHANGED <<convFile, convStart, convHistory, convTrace>>
    /\ ConvFrame

\* The record dispatch leaves of itself; cls is the number of classification
\* calls made and whether that call failed.
DispatchRecord(raised, ret, user_query, path, cls, llmCalls, sumCalls) ==
    [op |-> "dispatch", raised |-> raised, ret |-> ret, pre |-> convHistory,
     query |-> user_query, path |-> path, max_tokens |-> DefaultMaxTokens,
     clsCalls |-> cls.calls, clsFailed |-> cls.failed, llmCalls |-> llmCalls, sumCalls |-> sumCalls]

\* dispatch, the simple path: one call over the history, its failure turned
\* into the reply text; a is the append of the user turn.
DispatchSimple(user_query, a, outcome, cls) ==
    \E r \in {call_deepseek(outcome)} :
    \E response \in {IF r.raised = "none" THEN r.value ELSE <<"SIMPLE_FAILED", "ERRTEXT">>} :
    \E b \in {append_message(a.history, "assistant", response)} :
        ConvDone(b.history, b.file,
                 DispatchRecord(b.raised, response, user_query, "simple", cls, 1, 0))

\* dispatch, the complex path: the loop runs on a copy of the history, the
\* manager takes the loop's history, appends the reply and checks the budget.
DispatchComplex(user_query, a, run, cls) ==
    \E r \in {run_react_agent(user_query, FALSE, a.history, AgentMaxIterations,
                              run.script, run.toolOutcome)} :
        IF r.raised # "none"
        THEN ConvDone(a.history, a.file,
                      DispatchRecord(r.raised, <<>>, user_query, "complex", cls,
                                     r.calls, 0))
        ELSE \E b \in {append_message(r.history, "assistant", r.ret)} :
             IF b.raised # "none"
             THEN ConvDone(b.history, b.file,
                           DispatchRecord(b.raised, <<>>, user_query, "complex", cls,
                                          r.calls, 0))
             ELSE \E outcome \in IF OverBudget(b.history, DefaultMaxTokens)
                                 THEN SummaryOutcomes ELSE {LlmFail} :
                  \E s \in {summarize_if_long(b.history, DefaultMaxTokens, outcome)} :
                      ConvDone(s.history, b.file,
                               DispatchRecord(s.raised,
                                              IF s.raised = "none" THEN r.ret ELSE <<>>,
                                              user_query, "complex", cls, r.calls,
                                              s.calls))

\* dispatch after the classification: the user turn is appended, then the
\* path is taken.
DispatchRouted(user_query, classification, cls) ==
    \E a \in {append_message(convHistory, "user", user_query)} :
        IF a.raised # "none"
        THEN ConvDone(a.history, a.file,
                      DispatchRecord(a.raised, <<>>, user_query, "", cls, 0, 0))
        ELSE IF classification = <<"s", "i", "m", "p", "l", "e">>
        THEN \E outcome \in SimpleOutcomes :
                 DispatchSimple(user_query, a, outcome, cls)
        ELSE \E run \in DispatchRuns : DispatchComplex(user_query, a, run, cls)

\* dispatcher.dispatch(user_query)
ConvDispatch ==
    /\ Len(convTrace) < MaxOps
    /\ \E user_query \in DispatchQueries :
           IF HasComplexKeyword(user_query)
           THEN DispatchRouted(user_query, <<"c", "o", "m", "p", "l", "e", "x">>,
                               [calls |-> 0, failed |-> FALSE])
           ELSE \E outcome \in ClassifyOutcomes :
                \E classification \in {ClassifyByLlm(outcome)} :
                    DispatchRouted(user_query, classification,
                                   [calls |-> 1, failed |-> ~outcome.ok])

NextConversation ==
    \/ ConvAppend
    \/ ConvSummarize
    \/ ConvNew
    \/ ConvDispatch

(***************************************************************************)
(* ContextManager  (src/agent/dialogue/context_manager.py)                 *)
(*                                                                         *)
(* The manager holds nothing but the MemoryStore it was given, so its      *)
(* state is the store's.  A user input is a text of characters, "sp" and   *)
(* "nl" being white space, "zh" a character that is not an ASCII letter.    *)
(***************************************************************************)

\* self._core_context_fields
core_context_fields == <<"scene", "time_range", "data_type", "operation">>

\* The literal "未提及".
NotMentioned == "NOT_MENTIONED"

\* d[key] = value on a dict.
DictPut(d, key, value) ==
    [k \in (DOMAIN d) \cup {key} |-> IF k = key THEN value ELSE d[k]]

\* d.get(key, default)
DictGet(d, key, default) == IF key \in DOMAIN d THEN d[key] ELSE default

\* {**base, **kwargs}
DictMerge(base, kwargs) ==
    [k \in (DOMAIN base) \cup (DOMAIN kwargs) |->
        IF k \in DOMAIN kwargs THEN kwargs[k] ELSE base[k]]

\* add_long_term_memory(scene, result, export_path, **kwargs): append only.
add_long_term_memory_kwargs(scene, result, export_path, tick, kwargs) ==
    /\ Len(long_term_memory) < MaxLong
    /\ clock + tick <= MaxClock
    /\ clock' = clock + tick
    /\ long_term_memory' =
          Append(long_term_memory,
                 DictMerge(LongTermItem(scene, result, export_path, clock'), kwargs))
    /\ memLast' = [op |-> "add_long", n |-> 0, pre |-> long_term_memory, ret |-> <<>>]
    /\ UNCHANGED short_term_memory
    /\ MemFrame

\* What self._memory.get_long_term_memory(latest_only=True) returns: scene is
\* None, so the call returns the copy of the whole list at memory_store.py:78-79
\* and never looks at latest_only.
LatestLongTerm(long) == [kind |-> "list", value |-> long]

\* bool(v) of a returned list or dict.
PyTruthy(v) == IF v.kind = "list" THEN v.value # <<>> ELSE DOMAIN v.value # {}

\* key in v.  In a dict it asks for a key.  In a list it asks for an element
\* equal to key, and the elements of the long-term list are dicts: none of
\* them equals a str.
PyKeyIn(key, v) == IF v.kind = "dict" THEN key \in DOMAIN v.value ELSE FALSE

\* not self._memory.get_short_term_memory(key): the key is absent (None) or
\* holds an empty value.
ShortTermFalsy(short, key) == key \notin DOMAIN short \/ short[key] = ""

\* One of the two blocks of _complement_context_from_long_term: field is
\* "scene" or "time_range", word the text looked for in the lowered input.
ComplementField(short, latest, current_input, field, word) ==
    IF PyTruthy(latest) /\ PyKeyIn(field, latest)
       /\ ~Contains(Lower(current_input), word) /\ ShortTermFalsy(short, field)
    THEN DictPut(short, field, latest.value[field])
    ELSE short

\* _complement_context_from_long_term, on the short-term map short.
ComplementContextFromLongTerm(short, long) ==
    IF DictGet(short, "current_user_input", <<>>) = <<>> THEN short
    ELSE TheOnly({ ComplementField(s1, LatestLongTerm(long), short.current_user_input,
                                   "time_range", <<"t", "i", "m", "e">>) :
                   s1 \in { ComplementField(short, LatestLongTerm(long),
                                            short.current_user_input,
                                            "scene", <<"s", "c", "e", "n", "e">>) } })

\* update_context(user_input, clear_prev_short)
update_context(user_input, clear_prev_short) ==
    /\ short_term_memory' =
          ComplementContextFromLongTerm(
              DictPut(IF clear_prev_short THEN <<>> ELSE short_term_memory,
                      "current_user_input", Strip(user_input)),
              long_term_memory)
    /\ memLast' = [op |-> "update_context", n |-> 0, pre |-> long_term_memory,
                   ret |-> <<user_input, clear_prev_short>>]
    /\ UNCHANGED <<long_term_memory, clock>>
    /\ MemFrame

\* The map extract_key_context() returns.
KeyContext(short) ==
    [k \in {core_context_fields[i] : i \in 1 .. Len(core_context_fields)}
           \cup {"current_user_input"} |->
        IF k = "current_user_input"
        THEN IF k \in DOMAIN short THEN short[k] ELSE <<NotMentioned>>
        ELSE DictGet(short, k, NotMentioned)]

\* extract_key_context()
extract_key_context ==
    /\ memLast' = [op |-> "extract_key_context", n |-> 0, pre |-> long_term_memory,
                   ret |-> <<KeyContext(short_term_memory)>>]
    /\ UNCHANGED <<short_term_memory, long_term_memory, clock>>
    /\ MemFrame

\* validate_context(required_fields): (complete, missing fields in order).
MissingFields(short, required_fields) ==
    SelectSeq(required_fields,
              LAMBDA field : DictGet(KeyContext(short), field, NotMentioned) = NotMentioned)

validate_context(required_fields) ==
    /\ memLast' = [op |-> "validate_context", n |-> 0, pre |-> long_term_memory,
                   ret |-> <<MissingFields(short_term_memory, required_fields) = <<>>,
                             MissingFields(short_term_memory, required_fields)>>]
    /\ UNCHANGED <<short_term_memory, long_term_memory, clock>>
    /\ MemFrame

\* The user inputs the model passes: plain ones, blank ones, ones that spell
\* "scene" or "time" in some case.
CtxInputs ==
    { <<"sp", "E", "x", "c", "e", "l", "zh", "nl">>, <<"sp">>,
      <<"S", "c", "e", "n", "E", "zh">>, <<"zh", "T", "i", "m", "e">> }

\* The extra fields a caller appends a long-term item with.
CtxKwargs == { <<>>, [time_range |-> "2024-02"] }

CtxAddLong ==
    \E scene \in MemScenes, kwargs \in CtxKwargs :
        add_long_term_memory_kwargs(scene, "r1", NoneVal, 1, kwargs)
CtxParserAddsShort ==
    \E value \in MemScenes \cup {""} : add_short_term_memory("scene", value, TRUE)
CtxUpdate ==
    \E user_input \in CtxInputs, clear_prev_short \in BOOLEAN :
        update_context(user_input, clear_prev_short)
CtxExtract == extract_key_context
CtxValidate ==
    \E required_fields \in {core_context_fields, <<"scene", "time_range", "operation">>} :
        validate_context(required_fields)

NextContext ==
    \/ CtxAddLong
    \/ CtxParserAddsShort
    \/ CtxUpdate
    \/ CtxExtract
    \/ CtxValidate

(***************************************************************************)
(* ScenarioMatcher  (src/agent/parser/scenario_matcher.py)                 *)
(*                                                                         *)
(* Python dicts are objects: smHeap holds the parameter dicts alive, a     *)
(* Task holds the index of its params dict, and two Tasks that hold the    *)
(* same index share one dict.                                              *)
(***************************************************************************)

MaxMatch == 2        \* calls of match_scene_to_table the model makes

\* One entry of self._scene_mapping.
SceneInfo(wide_table, process_rules, field_mapping) ==
    [wide_table |-> wide_table, process_rules |-> process_rules,
     field_mapping |-> field_mapping]

\* self._scene_mapping as __init__ builds it: 销售分析, 成本分析, 利润分析,
\* 异常检测.
DefaultSceneMapping ==
    [sales_analysis   |-> SceneInfo("sales_wide_table", <<"aggregate", "growth", "top10", "sales_trend">>, [amount |-> "sales_amount", category |-> "product_category", region |-> "sales_region", time |-> "sales_date"]),
     cost_analysis    |-> SceneInfo("cost_wide_table", <<"summary", "iqr", "ratio", "cost_distribution">>, [amount |-> "cost_amount", type |-> "cost_type", time |-> "settle_date", department |-> "department"]),
     profit_analysis  |-> SceneInfo("profit_wide_table", <<"margin", "quarterly", "correlation", "profit_trend">>, [gross |-> "gross_profit", net |-> "net_profit", time |-> "profit_date", line |-> "product_line"]),
     anomaly_detection |-> SceneInfo("business_anomaly_table", <<"iqr_3sigma", "reason", "warning", "anomaly_list">>, [data |-> "business_data", type |-> "data_type", time |-> "detect_date", level |-> "anomaly_level"])]

\* Task(task_type, scene, mcp_config, params) as convert_to_task builds it;
\* params is the index of the dict in the heap.
Task(task_id, task_type, scene, params) ==
    [task_id |-> task_id, task_type |-> task_type, scene |-> scene,
     mcp_config |-> "default_mcp_config", params |-> params, priority |-> 2,
     create_time |-> "t0", status |-> "pending"]

\* task_params of convert_to_task.
TaskParams(time_range, operation) ==
    [time_range |-> time_range, data_type |-> "None", operation |-> operation,
     target |-> "None", raw_input |-> "raw"]

\* The index task.params.copy_target names: dict.copy() makes a new dict.
CopyTarget_Alias(heap, ref) == ref
CopyTarget(heap, ref) == Len(heap) + 1

\* The heap once the dict at index ref holds d.
HeapStore(heap, ref, d) ==
    IF ref > Len(heap) THEN Append(heap, d) ELSE [heap EXCEPT ![ref] = d]

\* The three keys updated_params.update({...}) writes.
ScenePatch(scene_info) ==
    [wide_table |-> scene_info.wide_table, process_rules |-> scene_info.process_rules,
     field_mapping |-> scene_info.field_mapping]

SmNoTask == Task("", "", "", 0)

SmIdle ==
    /\ smMapping = DefaultSceneMapping
    /\ smHeap = <<>>
    /\ smTask = SmNoTask
    /\ smGiven = <<>>
    /\ smReturned = <<>>

\* The scenes and the parameters of the tasks the model hands over.
SmScenes == {"sales_analysis", "cost_analysis", "unknown_scene"}
SmParams == {TaskParams("2024-02", "aggregate"), TaskParams("None", "report")}

\* ScenarioMatcher.__init__, and a task made by convert_to_task.
SmInit ==
    /\ smMapping = DefaultSceneMapping
    /\ \E scene \in SmScenes, params \in SmParams :
          /\ smHeap = <<params>>
          /\ smTask = Task("t1", "auto_analysis", scene, 1)
          /\ smGiven = params
    /\ smReturned = <<>>

\* match_scene_to_table(task): raises for a scene that is not mapped; else
\* copies task.params, writes the three keys into the copy and returns a new
\* Task that holds the copy.
match_scene_to_table(task) ==
    /\ IF task.scene \notin DOMAIN smMapping
       THEN /\ smReturned' = Append(smReturned,
                   [raised |-> "Exception", task |-> SmNoTask, params |-> <<>>,
                    mapping |-> smMapping])
            /\ UNCHANGED smHeap
       ELSE \E updated_params \in {CopyTarget(smHeap, task.params)} :
            \E content \in {DictMerge(smHeap[task.params], ScenePatch(smMapping[task.scene]))} :
               /\ smHeap' = HeapStore(smHeap, updated_params, content)
               /\ smReturned' = Append(smReturned,
                      [raised |-> "none",
                       task |-> [task EXCEPT !.params = updated_params],
                       params |-> content, mapping |-> smMapping])
    /\ UNCHANGED <<smMapping, smTask, smGiven>>
    /\ SmFrame

\* update_scene_mapping(scene, scene_info, overwrite): raises when one of the
\* three keys is missing; leaves a mapped scene alone when overwrite is false.
update_scene_mapping(scene, scene_info, overwrite) ==
    /\ smMapping' =
          IF {"wide_table", "process_rules", "field_mapping"} \ (DOMAIN scene_info) # {}
          THEN smMapping
          ELSE IF ~overwrite /\ scene \in DOMAIN smMapping THEN smMapping
          ELSE DictPut(smMapping, scene, scene_info)
    /\ UNCHANGED <<smHeap, smTask, smGiven, smReturned>>
    /\ SmFrame

\* A caller writes a key into the params of a Task it was handed back, as
\* dispatch_series does with "prev_task_result".
SmCallerWrites ==
    \E i \in 1 .. Len(smReturned) :
        /\ smReturned[i].raised = "none"
        /\ smHeap' = [smHeap EXCEPT ![smReturned[i].task.params] =
                          DictPut(@, "prev_task_result", "PREV")]
        /\ UNCHANGED <<smMapping, smTask, smGiven, smReturned>>
        /\ SmFrame

SmMatch ==
    /\ Len(smReturned) < MaxMatch
    /\ match_scene_to_table(smTask)

\* The scene infos a caller registers: a full one, one without field_mapping.
SmInfos ==
    { SceneInfo("custom_table", <<"custom_rule">>, [k |-> "v"]),
      [wide_table |-> "custom_table", process_rules |-> <<"custom_rule">>] }

SmUpdate ==
    \E scene \in {"sales_analysis", "unknown_scene"}, scene_info \in SmInfos,
       overwrite \in BOOLEAN :
        update_scene_mapping(scene, scene_info, overwrite)

NextMatcher ==
    \/ SmMatch
    \/ SmUpdate
    \/ SmCallerWrites

(***************************************************************************)
(* The pipeline TaskDispatcher  (src/agent/scheduler/task_dispatcher.py)   *)
(* and the processing modules it drives  (src/mcp/)                        *)
(*                                                                         *)
(* A task dict is a map; a key the dict lacks is outside its DOMAIN.  A    *)
(* module instance is the number it was constructed with.  pdLog keeps,    *)
(* in order, what the dispatcher did to module instances.                  *)
(***************************************************************************)

MaxTasks == 3        \* longest task list handed to dispatch_series
MaxCalls == 3        \* calls made on one dispatcher

\* self.task_type_to_mcp
task_type_to_mcp ==
    [nl2sql |-> "SQLGenerator", auto_data_analysis |-> "DescriptiveAnalysis",
     office_excel |-> "ExcelParser", python_sandbox |-> "PythonSandbox"]

\* BaseMCP._standardize_output(status, data, error_msg)
StandardizeOutput(mcp_module, status, data, error_msg) ==
    [mcp_module |-> mcp_module, task_id |-> "", status |-> status, data |-> data,
     error_msg |-> error_msg, execute_time |-> "", output_files |-> <<>>]

\* BaseMCP._standardize_input(task_dict): the keys it guarantees, of which
\* the modules read task_id and params.
StandardizeInput(task_dict) ==
    [task_id |-> DictGet(task_dict, "task_id", "unknown"),
     task_type |-> DictGet(task_dict, "task_type", "unknown"),
     scene |-> DictGet(task_dict, "scene", "unknown"),
     params |-> DictGet(task_dict, "params", <<>>),
     output_path |-> DictGet(task_dict, "output_path", "default_output_path")]

\* The test each module's execute makes on its parameters before it works:
\*   SQLGenerator         query_demand and wide_table
\*   DescriptiveAnalysis  raw_data and field_names and target_fields
\*   PythonSandbox        script_content or script_template
\* and for the ExcelParser, whose class is not in the source tree, the
\* statistics map it fills the template from.
CoreParamsGiven(mcp_module, task_params) ==
    CASE mcp_module = "SQLGenerator" ->
            {"query_demand", "wide_table"} \subseteq DOMAIN task_params
      [] mcp_module = "DescriptiveAnalysis" ->
            {"raw_data", "field_names", "target_fields"} \subseteq DOMAIN task_params
      [] mcp_module = "PythonSandbox" ->
            {"script_content", "script_template"} \cap DOMAIN task_params # {}
      [] OTHER -> "statistics_result" \in DOMAIN task_params

\* execute(task_dict) of an initialised module: whatever goes wrong inside
\* its try block comes back as a failed envelope that carries the task id.
ModuleExecute_Raising(mcp_module, task_dict) ==
    IF CoreParamsGiven(mcp_module, StandardizeInput(task_dict).params)
    THEN [raised |-> "none",
          ret |-> [StandardizeOutput(mcp_module, "success", "DATA", "") EXCEPT
                      !.task_id = StandardizeInput(task_dict).task_id,
                      !.execute_time = "NOW"]]
    ELSE [raised |-> "Exception", ret |-> <<>>]
ModuleExecute(mcp_module, task_dict) ==
    IF CoreParamsGiven(mcp_module, StandardizeInput(task_dict).params)
    THEN [raised |-> "none",
          ret |-> [StandardizeOutput(mcp_module, "success", "DATA", "") EXCEPT
                      !.task_id = StandardizeInput(task_dict).task_id,
                      !.execute_time = "NOW"]]
    ELSE [raised |-> "none",
          ret |-> [StandardizeOutput(mcp_module, "failed", <<>>, "EXECUTE_FAILED") EXCEPT
                      !.task_id = StandardizeInput(task_dict).task_id]]

\* What constructing a module and calling init on it comes to, the n-th time
\* the dispatcher tries: "ok" (init returned True), "false" (init returned
\* False) or "raise" (the constructor raised).  The last entry of the plan
\* repeats.
PlanAt(plan, n) == plan[Min(n, Len(plan))]

\* The dispatcher's own state, threaded through a call.
PdState(instances, made, attempts, log) ==
    [instances |-> instances, made |-> made, attempts |-> attempts, log |-> log]

\* Whether a failed init drops the instance: the cache is written only after
\* init returned True.
CachedAfterInit_Always(instances, task_type, id, init_success) ==
    DictPut(instances, task_type, id)
CachedAfterInit(instances, task_type, id, init_success) ==
    IF init_success THEN DictPut(instances, task_type, id) ELSE instances

\* _get_or_init_mcp_instance(task_type, module_config)
GetOrInitMcpInstance(s, plan, task_type) ==
    IF task_type \in DOMAIN s.instances
    THEN [raised |-> "none", msg |-> "", id |-> s.instances[task_type], s |-> s]
    ELSE IF PlanAt(plan, s.attempts + 1) = "raise"
    THEN [raised |-> "Exception", msg |-> "CONSTRUCTOR_FAILED", id |-> 0,
          s |-> [s EXCEPT !.attempts = @ + 1]]
    ELSE [raised |-> IF PlanAt(plan, s.attempts + 1) = "ok" THEN "none"
                     ELSE "TaskExecuteException",
          msg |-> IF PlanAt(plan, s.attempts + 1) = "ok" THEN "" ELSE "INIT_FAILED",
          id |-> s.made + 1,
          s |-> PdState(CachedAfterInit(s.instances, task_type, s.made + 1,
                                        PlanAt(plan, s.attempts + 1) = "ok"),
                        s.made + 1, s.attempts + 1,
                        Append(s.log, [ev |-> "init", kind |-> task_type, id |-> s.made + 1,
                                       ok |-> PlanAt(plan, s.attempts + 1) = "ok"]))]

\* dispatch(task_dict): what it raises or returns, and the state it leaves.
\* why is "empty", "unsupported", "init" or "execute".
DispatchWith(s, plan, task_dict, task_type) ==
    TheOnly({
        IF g.raised # "none"
        THEN [raised |-> "TaskExecuteException", why |-> "init", msg |-> g.msg,
              ret |-> <<>>, s |-> g.s]
        ELSE TheOnly({
            IF r.raised # "none"
            THEN [raised |-> "TaskExecuteException", why |-> "execute",
                  msg |-> "EXECUTE_RAISED", ret |-> <<>>,
                  s |-> [g.s EXCEPT !.log = Append(@, [ev |-> "execute", kind |-> task_type,
                                                       id |-> g.id, ok |-> FALSE])]]
            ELSE [raised |-> "none", why |-> "", msg |-> "", ret |-> r.ret,
                  s |-> [g.s EXCEPT !.log = Append(@, [ev |-> "execute", kind |-> task_type,
                                                       id |-> g.id,
                                                       ok |-> r.ret.status = "success"])]]
            : r \in {ModuleExecute(task_type_to_mcp[task_type], task_dict)} })
        : g \in {GetOrInitMcpInstance(s, plan, task_type)} })

Dispatch(s, plan, task_dict) ==
    IF DOMAIN task_dict = {}
    THEN [raised |-> "TaskExecuteException", why |-> "empty", msg |-> "EMPTY_TASK",
          ret |-> <<>>, s |-> s]
    ELSE IF DictGet(task_dict, "task_type", "unknown_type") \notin DOMAIN task_type_to_mcp
    THEN [raised |-> "TaskExecuteException", why |-> "unsupported",
          msg |-> "UNSUPPORTED_TYPE", ret |-> <<>>, s |-> s]
    ELSE DispatchWith(s, plan, task_dict, task_dict.task_type)

\* The entry dispatch_series records for a task that raised.
FailedEntry_NoId(task_id, error_msg) ==
    [task_id |-> "", status |-> "failed", error_msg |-> error_msg,
     execute_time |-> "NOW"]
FailedEntry(task_id, error_msg) ==
    [task_id |-> task_id, status |-> "failed", error_msg |-> error_msg,
     execute_time |-> "NOW"]

\* prev_task_result after a task returned current_result: replaced only by a
\* result whose status is success, kept as it was otherwise.
NextPrev(prev_task_result, current_result) ==
    IF current_result.status = "success" THEN current_result ELSE prev_task_result

\* One round of the loop of dispatch_series, on the task at index idx
\* (counted from 0): the task as the loop leaves it, the entry appended to
\* result_list, prev_task_result and the dispatcher's state afterwards.
SeriesStep(s, plan, task_dict, idx, prev_task_result) ==
    IF "params" \notin DOMAIN task_dict
    THEN [s |-> s, prev |-> prev_task_result, task |-> task_dict, dispatched |-> FALSE,
          result |-> FailedEntry(DictGet(task_dict, "task_id",
                                         "unknown_task_" \o ToString(idx)), "KeyError")]
    ELSE TheOnly({ TheOnly({
        IF d.raised # "none"
        THEN [s |-> d.s, prev |-> prev_task_result, task |-> threaded, dispatched |-> TRUE,
              result |-> FailedEntry(DictGet(task_dict, "task_id",
                                             "unknown_task_" \o ToString(idx)), d.msg)]
        ELSE [s |-> d.s, prev |-> NextPrev(prev_task_result, d.ret), task |-> threaded,
              dispatched |-> TRUE, result |-> d.ret]
        : d \in {Dispatch(s, plan, threaded)} })
        : threaded \in {[task_dict EXCEPT !.params =
                            DictPut(@, "prev_task_result", prev_task_result)]} })

\* The loop of dispatch_series from index idx on.
RECURSIVE SeriesFrom(_, _, _, _, _, _)
SeriesFrom(s, plan, task_list, idx, prev_task_result, acc) ==
    IF idx >= Len(task_list)
    THEN [s |-> s, result_list |-> acc.result_list, tasks |-> acc.tasks,
          dispatched |-> acc.dispatched]
    ELSE TheOnly({
        SeriesFrom(step.s, plan, task_list, idx + 1, step.prev,
                   [result_list |-> Append(acc.result_list, step.result),
                    tasks |-> Append(acc.tasks, step.task),
                    dispatched |-> Append(acc.dispatched, step.dispatched)])
        : step \in {SeriesStep(s, plan, task_list[idx + 1], idx, prev_task_result)} })

\* dispatch_series(task_list)
DispatchSeries(s, plan, task_list) ==
    IF task_list = <<>>
    THEN [raised |-> "TaskExecuteException", s |-> s, result_list |-> <<>>,
          tasks |-> <<>>, dispatched |-> <<>>]
    ELSE TheOnly({
        [raised |-> "none", s |-> r.s, result_list |-> r.result_list, tasks |-> r.tasks,
         dispatched |-> r.dispatched]
        : r \in {SeriesFrom(s, plan, task_list, 0, <<>>,
                            [result_list |-> <<>>, tasks |-> <<>>, dispatched |-> <<>>])} })

\* close_all_mcp_instances(): the kinds in the cache, lowest first.
RECURSIVE CloseEvents(_, _)
CloseEvents(instances, kinds) ==
    IF kinds = {} THEN <<>>
    ELSE TheOnly({ <<[ev |-> "close", kind |-> k, id |-> instances[k], ok |-> TRUE]>>
                       \o CloseEvents(instances, kinds \ {k})
                   : k \in {CHOOSE k \in kinds : \A o \in kinds : instances[k] <= instances[o]} })

PdNoCall ==
    [op |-> "none", raised |-> "none", why |-> "", given |-> <<>>, ret |-> <<>>,
     result_list |-> <<>>, tasks |-> <<>>, dispatched |-> <<>>, before |-> <<>>,
     logged |-> 0]

PdIdle ==
    /\ pdPlan = <<"ok">>
    /\ pdTaskList = <<>>
    /\ pdInstances = <<>>
    /\ pdMade = 0
    /\ pdAttempts = 0
    /\ pdLog = <<>>
    /\ pdCalls = 0
    /\ pdLast = PdNoCall

\* The task dicts the model hands over: a sandbox task with its script, an
\* SQL task without its core parameters, an analysis task without a params
\* key and a task of a kind the dispatcher does not know.
PdTasks ==
    { [task_id |-> "t_run", task_type |-> "python_sandbox",
       params |-> [script_content |-> "print(1)"]],
      [task_id |-> "t_sql", task_type |-> "nl2sql", params |-> [time_range |-> "2024-02"]],
      [task_type |-> "auto_data_analysis"],
      [task_id |-> "t_odd", task_type |-> "report", params |-> <<>>] }

RECURSIVE PdTaskLists(_)
PdTaskLists(n) ==
    IF n = 0 THEN {<<>>}
    ELSE PdTaskLists(n - 1)
         \cup {Append(l, t) : l \in {x \in PdTaskLists(n - 1) : Len(x) = n - 1}, t \in PdTasks}

PdPlans == { <<"ok">>, <<"false", "ok">>, <<"raise", "false", "ok">> }

\* TaskDispatcher.__init__, and the task list and modules of this run.
PdInit ==
    /\ pdPlan \in PdPlans
    /\ pdTaskList \in PdTaskLists(MaxTasks)
    /\ pdInstances = <<>>
    /\ pdMade = 0
    /\ pdAttempts = 0
    /\ pdLog = <<>>
    /\ pdCalls = 0
    /\ pdLast = PdNoCall

PdNow == PdState(pdInstances, pdMade, pdAttempts, pdLog)

PdLeave(s) ==
    /\ pdInstances' = s.instances
    /\ pdMade' = s.made
    /\ pdAttempts' = s.attempts
    /\ pdLog' = s.log
    /\ pdCalls' = pdCalls + 1
    /\ UNCHANGED <<pdPlan, pdTaskList>>
    /\ PdFrame

\* dispatcher.dispatch(task_dict) on the first task of the list, or on {}.
PdDispatch ==
    /\ pdCalls < MaxCalls
    /\ \E task_dict \in {IF pdTaskList = <<>> THEN <<>> ELSE pdTaskList[1]} :
       \E d \in {Dispatch(PdNow, pdPlan, task_dict)} :
          /\ pdLast' = [PdNoCall EXCEPT !.op = "dispatch", !.raised = d.raised,
                            !.why = d.why, !.given = <<task_dict>>, !.ret = d.ret,
                            !.before = pdInstances, !.logged = Len(pdLog)]
          /\ PdLeave(d.s)

\* dispatcher.dispatch_series(task_list)
PdDispatchSeries ==
    /\ pdCalls < MaxCalls
    /\ \E r \in {DispatchSeries(PdNow, pdPlan, pdTaskList)} :
          /\ pdLast' = [PdNoCall EXCEPT !.op = "dispatch_series", !.raised = r.raised,
                            !.given = pdTaskList, !.result_list = r.result_list,
                            !.tasks = r.tasks, !.dispatched = r.dispatched,
                            !.before = pdInstances, !.logged = Len(pdLog)]
          /\ PdLeave(r.s)

\* dispatcher.close_all_mcp_instances()
PdCloseAll ==
    /\ pdCalls < MaxCalls
    /\ pdLast' = [PdNoCall EXCEPT !.op = "close_all", !.before = pdInstances,
                       !.logged = Len(pdLog)]
    /\ PdLeave(PdState(<<>>, pdMade, pdAttempts,
                       pdLog \o CloseEvents(pdInstances, DOMAIN pdInstances)
                             \o <<[ev |-> "clear", kind |-> "", id |-> 0, ok |-> TRUE]>>))

NextDispatcher ==
    \/ PdDispatch
    \/ PdDispatchSeries
    \/ PdCloseAll

(***************************************************************************)
(* ReportAgent and the ScenarioMatcher it was given                        *)
(* (src/agent/core/report_agent.py, src/agent/parser/scenario_matcher.py)  *)
(*                                                                         *)
(* Python lists are objects: raLists holds the rule lists alive, and a     *)
(* scene info or a Task's params hold the index of their rule list, so a   *)
(* list appended to through one holder is changed for every holder.  A     *)
(* field mapping is the set of its keys.  The rules and keys are tokens:   *)
(* "rule_anomaly" is the text "异常检测", "rule_cost_compliance" the text   *)
(* "补充成本异常检测（金融合规要求）", "k_cost" the key "成本", "k_cost_amount" *)
(* the key "成本金额".                                                       *)
(***************************************************************************)

MaxHanded  == 3      \* tasks the model lets parse_instruction hand over
MaxAdapts  == 3      \* scene adaptations and executions the model makes
MaxUpdates == 1      \* calls of update_scene_mapping the model makes

\* supported_financial_scenes of _adapt_business_scene
supported_financial_scenes ==
    {"sales_analysis", "cost_analysis", "profit_analysis", "anomaly_detection"}

\* self._financial_field_check with the key "成本金额" added to it.
financial_field_check_WithCostAmount ==
    {"k_amount", "k_sales_amount", "k_cost", "k_profit", "k_ratio", "k_cost_amount"}

\* self._financial_field_check: "金额", "销售额", "成本", "利润", "比率".
financial_field_check ==
    {"k_amount", "k_sales_amount", "k_cost", "k_profit", "k_ratio"}

\* The text the adaptation looks for and the text it appends.
CheckedRule  == "rule_anomaly"
AppendedRule == "rule_cost_compliance"

\* The keys of the field mappings __init__ of the matcher builds.
DefaultFieldKeys ==
    [sales_analysis    |-> {"k_sales_amount", "k_product_category", "k_sales_region", "k_sales_time"},
     cost_analysis     |-> {"k_cost_amount", "k_cost_type", "k_settle_time", "k_department"},
     profit_analysis   |-> {"k_gross_profit", "k_net_profit", "k_profit_date", "k_product_line"},
     anomaly_detection |-> {"k_business_data", "k_data_type", "k_detect_time", "k_anomaly_level"}]

\* The rule lists __init__ of the matcher builds, one list object a scene.
RaSceneOrder == <<"sales_analysis", "cost_analysis", "profit_analysis", "anomaly_detection">>
RaDefaultLists ==
    [i \in 1 .. Len(RaSceneOrder) |-> DefaultSceneMapping[RaSceneOrder[i]].process_rules]
RaDefaultMapping ==
    [scene \in supported_financial_scenes |->
        [process_rules |-> CHOOSE i \in 1 .. Len(RaSceneOrder) : RaSceneOrder[i] = scene,
         field_mapping |-> DefaultFieldKeys[scene]]]

RaNoTask == [scene |-> "", process_rules |-> 0, field_mapping |-> {}]
RaNoCall == [op |-> "none", ret |-> "None", scene |-> "", before |-> <<>>, after |-> <<>>]

RaIdle ==
    /\ raLists = RaDefaultLists
    /\ raMapping = RaDefaultMapping
    /\ raTask = RaNoTask
    /\ raHanded = <<>>
    /\ raAdapts = 0
    /\ raUpdates = 0
    /\ raLast = RaNoCall

\* ScenarioMatcher.__init__ and ReportAgent.__init__: no current task.
RaInit == RaIdle

\* The elements of a list.
Elems(l) == {l[i] : i \in 1 .. Len(l)}

\* get_scene_process_rules(scene): the scene's rule list, None for a scene
\* that is not mapped.
get_scene_process_rules(scene) ==
    IF scene \notin DOMAIN raMapping THEN <<"None">>
    ELSE raLists[raMapping[scene].process_rules]

\* The params match_scene_to_table builds hold scene_info["process_rules"]
\* and scene_info["field_mapping"] themselves.
MatchedTask(scene) ==
    [scene |-> scene, process_rules |-> raMapping[scene].process_rules,
     field_mapping |-> raMapping[scene].field_mapping]

\* parse_instruction(): the Task of the parsed input goes through
\* match_scene_to_table and becomes the current task; a scene that is not
\* mapped raises there and the current task stays.
ra_parse_instruction(scene) ==
    /\ IF scene \notin DOMAIN raMapping
       THEN /\ raLast' = [RaNoCall EXCEPT !.op = "parse_instruction", !.scene = scene]
            /\ UNCHANGED <<raTask, raHanded>>
       ELSE /\ raTask' = MatchedTask(scene)
            /\ raHanded' = Append(raHanded,
                   [scene |-> scene, rules |-> get_scene_process_rules(scene),
                    adapts |-> raAdapts])
            /\ raLast' = [RaNoCall EXCEPT !.op = "parse_instruction", !.ret = "Task",
                                          !.scene = scene]
    /\ UNCHANGED <<raLists, raMapping, raAdapts, raUpdates>>
    /\ RaFrame

\* any(field in field_mapping for field in self._financial_field_check)
FinancialFieldExists(field_mapping) ==
    \E field \in financial_field_check : field \in field_mapping

\* _adapt_business_scene(): whether it succeeds and the rule lists it leaves.
AdaptBusinessScene(task, lists) ==
    IF task = RaNoTask THEN [ok |-> FALSE, lists |-> lists]
    ELSE IF task.scene \notin supported_financial_scenes THEN [ok |-> FALSE, lists |-> lists]
    ELSE IF ~FinancialFieldExists(task.field_mapping) THEN [ok |-> FALSE, lists |-> lists]
    ELSE IF /\ task.scene = "cost_analysis"
            /\ CheckedRule \notin Elems(lists[task.process_rules])
    THEN [ok |-> TRUE,
          lists |-> [lists EXCEPT ![task.process_rules] = Append(@, AppendedRule)]]
    ELSE [ok |-> TRUE, lists |-> lists]

\* The rule list of the current task, empty without one.
RaTaskRules(lists) ==
    IF raTask = RaNoTask THEN <<>> ELSE lists[raTask.process_rules]

\* _adapt_business_scene()
ra_adapt_business_scene ==
    /\ \E a \in {AdaptBusinessScene(raTask, raLists)} :
          /\ raLists' = a.lists
          /\ raLast' = [op |-> "adapt", ret |-> IF a.ok THEN "True" ELSE "False",
                        scene |-> raTask.scene, before |-> RaTaskRules(raLists),
                        after |-> RaTaskRules(a.lists)]
    /\ raAdapts' = raAdapts + 1
    /\ UNCHANGED <<raMapping, raTask, raHanded, raUpdates>>
    /\ RaFrame

\* _execute_task(): None without a task or when the adaptation fails; else
\* the report result, built from the task after the adaptation.
ra_execute_task ==
    /\ \E a \in {AdaptBusinessScene(raTask, raLists)} :
          /\ raLists' = a.lists
          /\ raLast' = [op |-> "execute", ret |-> IF a.ok THEN "result" ELSE "None",
                        scene |-> raTask.scene, before |-> RaTaskRules(raLists),
                        after |-> RaTaskRules(a.lists)]
    /\ raAdapts' = raAdapts + 1
    /\ UNCHANGED <<raMapping, raTask, raHanded, raUpdates>>
    /\ RaFrame

\* update_scene_mapping(scene, scene_info): the scene info given becomes the
\* entry, its rule list a list object of its own.
ra_update_scene_mapping(scene, process_rules, field_mapping) ==
    /\ raLists' = Append(raLists, process_rules)
    /\ raMapping' = DictPut(raMapping, scene,
                            [process_rules |-> Len(raLists) + 1,
                             field_mapping |-> field_mapping])
    /\ raUpdates' = raUpdates + 1
    /\ raLast' = [RaNoCall EXCEPT !.op = "update_scene_mapping", !.scene = scene]
    /\ UNCHANGED <<raTask, raHanded, raAdapts>>
    /\ RaFrame

\* The scenes of the inputs the model parses, one of them not mapped.
RaScenes == supported_financial_scenes \cup {"unknown_scene"}

RaParse ==
    /\ Len(raHanded) < MaxHanded
    /\ \E scene \in RaScenes : ra_parse_instruction(scene)
RaAdapt ==
    /\ raAdapts < MaxAdapts
    /\ ra_adapt_business_scene
RaExecute ==
    /\ raAdapts < MaxAdapts
    /\ ra_execute_task
\* A caller registers a cost-analysis scene info whose field mapping holds
\* the key "成本", with a rule list that holds "异常检测" or does not.
RaUpdate ==
    /\ raUpdates < MaxUpdates
    /\ \E process_rules \in {<<"summary">>, <<"summary", CheckedRule>>} :
          ra_update_scene_mapping("cost_analysis", process_rules, {"k_cost", "k_cost_type"})

NextReport ==
    \/ RaParse
    \/ RaAdapt
    \/ RaExecute
    \/ RaUpdate

(***************************************************************************)
(* The configuration getters on their own  (src/config/__init__.py)        *)
(*                                                                         *)
(* The five documents with their getters, called in any order while the    *)
(* files change on disk.  cfgLoaded remembers, a document, what its first  *)
(* successful load returned ("no" before it).                               *)
(***************************************************************************)

MaxGets    == 3      \* calls of a getter the model makes
MaxChanges == 2      \* changes of a file on disk the model makes

\* global_config, nl2sql_config, office_config, scenario_widetable_mapping,
\* llm_config.
CfgAllDocs == CfgDocs \cup {"nl2sql", "office"}

CfgNoGet ==
    [op |-> "none", doc |-> "", raised |-> "none", value |-> "none", read |-> FALSE,
     loadedBefore |-> "no", failedBefore |-> FALSE, gets |-> 0, changes |-> 0]

CfgIdle ==
    /\ cfgLoaded = [d \in CfgDocs |-> "no"]
    /\ cfgLast = CfgNoGet

\* The module just imported: every cache is {}, every file in place.
CfgInit ==
    /\ cfgFiles = [d \in CfgAllDocs |-> "valid"]
    /\ cfgCache = [d \in CfgAllDocs |-> "none"]
    /\ cfgLoaded = [d \in CfgAllDocs |-> "no"]
    /\ cfgLast = CfgNoGet
    /\ cfgDirsOk = TRUE
    /\ facExists = FALSE
    /\ facInitialized = FALSE
    /\ facConfigs = CfgNoCache
    /\ facModules = {}
    /\ facLast = FacNoCall

\* get_global_config(), get_nl2sql_config(), get_office_config(),
\* get_scenario_widetable_mapping(), get_llm_config(): the getter of doc.
cfg_get(doc) ==
    /\ \E g \in {get_config(cfgCache, cfgFiles, doc)} :
          /\ cfgCache' = g.cache
          /\ cfgLoaded' = IF g.raised = "none" /\ cfgLoaded[doc] = "no"
                          THEN [cfgLoaded EXCEPT ![doc] = g.value] ELSE cfgLoaded
          /\ cfgLast' = [op |-> "get", doc |-> doc, raised |-> g.raised, value |-> g.value,
                         read |-> cfgCache[doc] = "none",
                         loadedBefore |-> cfgLoaded[doc],
                         failedBefore |-> /\ cfgLast.op = "get" /\ cfgLast.doc = doc
                                          /\ cfgLast.raised # "none",
                         gets |-> cfgLast.gets + 1, changes |-> cfgLast.changes]
    /\ UNCHANGED <<cfgFiles, cfgDirsOk, facExists, facInitialized, facConfigs, facModules,
                   facLast>>
    /\ CfgFrame

\* The file of doc is removed, emptied or rewritten on disk.
CfgFileChanges(doc, state) ==
    /\ cfgFiles[doc] # state
    /\ cfgFiles' = [cfgFiles EXCEPT ![doc] = state]
    /\ cfgLast' = [cfgLast EXCEPT !.op = "file", !.doc = doc, !.changes = @ + 1]
    /\ UNCHANGED <<cfgCache, cfgLoaded, cfgDirsOk, facExists, facInitialized, facConfigs,
                   facModules, facLast>>
    /\ CfgFrame

CfgGet ==
    /\ cfgLast.gets < MaxGets
    /\ \E doc \in CfgAllDocs : cfg_get(doc)
CfgChange ==
    /\ cfgLast.changes < MaxChanges
    /\ \E doc \in CfgAllDocs, state \in CfgFileStates : CfgFileChanges(doc, state)

NextConfig ==
    \/ CfgGet
    \/ CfgChange

(***************************************************************************)
(* PythonSandbox, the MCP module  (src/mcp/python_sandbox/python_sandbox.py) *)
(*                                                                         *)
(* A script file is the number of the execute that created it; psFiles is  *)
(* the set of script files on disk.                                        *)
(***************************************************************************)

MaxExec == 3         \* execute calls the model makes on the module

PsNoPath == 0        \* self.temp_script_path = ""

PsNoCall ==
    [op |-> "none", ret |-> "None", status |-> "", output_files |-> <<>>,
     removed |-> PsNoPath]

PsIdle ==
    /\ psInitialized = FALSE
    /\ psKeepTemp = FALSE
    /\ psTempScriptPath = PsNoPath
    /\ psFiles = {}
    /\ psMade = <<>>
    /\ psLast = PsNoCall

\* PythonSandbox.__init__
PsInit == PsIdle

\* init(module_config): keepTemp is module_config.get("save_temp_script").
ps_init(keepTemp) ==
    /\ psInitialized' = TRUE
    /\ psKeepTemp' = keepTemp
    /\ psLast' = [PsNoCall EXCEPT !.op = "init", !.ret = "True"]
    /\ UNCHANGED <<psTempScriptPath, psFiles, psMade>>
    /\ PsFrame

\* _generate_temp_script: the file is written under output_path when
\* save_script is set, as a NamedTemporaryFile(delete=False) under the
\* sandbox directory when not; either way it is a new file on disk.
GenerateTempScript(made) == Len(made) + 1

\* execute(task_dict): a failed envelope before initialisation or without
\* script_content and script_template; else the script file is made, its
\* path kept in self.temp_script_path, and reported in output_files only
\* when save_script is set.
ps_execute(hasScript, save_script) ==
    /\ IF ~psInitialized \/ ~hasScript
       THEN /\ psLast' = [PsNoCall EXCEPT !.op = "execute", !.ret = "envelope",
                                         !.status = "failed"]
            /\ UNCHANGED <<psTempScriptPath, psFiles>>
            /\ psMade' = Append(psMade, [path |-> PsNoPath, save_script |-> save_script,
                                         reported |-> FALSE])
       ELSE \E path \in {GenerateTempScript(psMade)} :
            /\ psTempScriptPath' = path
            /\ psFiles' = psFiles \cup {path}
            /\ psMade' = Append(psMade, [path |-> path, save_script |-> save_script,
                                         reported |-> save_script])
            /\ psLast' = [PsNoCall EXCEPT !.op = "execute", !.ret = "envelope",
                                         !.status = "success",
                                         !.output_files =
                                             IF save_script THEN <<path>> ELSE <<>>]
    /\ UNCHANGED <<psInitialized, psKeepTemp>>
    /\ PsFrame

\* The file close() removes: the one self.temp_script_path names, if it is
\* on disk and save_temp_script is not configured.
ClosedPath(temp_script_path, files, keepTemp) ==
    IF temp_script_path # PsNoPath /\ temp_script_path \in files /\ ~keepTemp
    THEN temp_script_path ELSE PsNoPath

\* close()
ps_close ==
    /\ \E gone \in {ClosedPath(psTempScriptPath, psFiles, psKeepTemp)} :
          /\ psFiles' = psFiles \ {gone}
          /\ psLast' = [PsNoCall EXCEPT !.op = "close", !.ret = "True", !.removed = gone]
    /\ psInitialized' = FALSE
    /\ UNCHANGED <<psKeepTemp, psTempScriptPath, psMade>>
    /\ PsFrame

PsDoInit == \E keepTemp \in BOOLEAN : ps_init(keepTemp)
PsDoExecute ==
    /\ Len(psMade) < MaxExec
    /\ \E hasScript \in BOOLEAN, save_script \in BOOLEAN : ps_execute(hasScript, save_script)
PsDoClose == ps_close

NextPythonSandbox ==
    \/ PsDoInit
    \/ PsDoExecute
    \/ PsDoClose

(***************************************************************************)
(* NLParser and TaskStructor                                               *)
(* (src/agent/parser/nl_parser.py, src/agent/parser/task_structor.py)      *)
(*                                                                         *)
(* The parser reads the ContextManager's key context, so its state is the  *)
(* MemoryStore's.  In a user input a keyword is one token: "kw_sales" is   *)
(* "销售", "kw_cost" "成本", "kw_profit" "利润", "kw_anomaly" "异常" (a scene  *)
(* keyword and an operation keyword), "kw_stat" "统计", "kw_trend" "趋势",  *)
(* "kw_report" "报表", "kw_detect" "检测", "t2024" a text the time patterns   *)
(* match.                                                                  *)
(***************************************************************************)

\* The literals "未知场景", "未指定时间", "未指定操作".
UnknownScene  == "UNKNOWN_SCENE"
TimeUnspec    == "TIME_UNSPECIFIED"
OpUnspec      == "OPERATION_UNSPECIFIED"

\* self._scene_keywords, in the order of the dict.
scene_keywords ==
    << [scene |-> "sales_analysis",    words |-> {"kw_sales"}],
       [scene |-> "cost_analysis",     words |-> {"kw_cost"}],
       [scene |-> "profit_analysis",   words |-> {"kw_profit"}],
       [scene |-> "anomaly_detection", words |-> {"kw_anomaly"}] >>

\* self._operation_keywords, in the order of the dict: 统计聚合, 趋势分析,
\* 报表生成, 异常识别.
operation_keywords ==
    << [operation |-> "aggregate", words |-> {"kw_stat"}],
       [operation |-> "trend",     words |-> {"kw_trend"}],
       [operation |-> "report",    words |-> {"kw_report"}],
       [operation |-> "detect",    words |-> {"kw_detect", "kw_anomaly"}] >>

\* any(keyword in user_input for keyword in keywords)
AnyKeywordIn(words, user_input) == \E i \in 1 .. Len(user_input) : user_input[i] \in words

\* _extract_scene(user_input, key_context): the first scene with a keyword
\* in the input, else key_context.get("scene", "未知场景").
ExtractScene(user_input, key_context) ==
    LET hits == {i \in 1 .. Len(scene_keywords) :
                    AnyKeywordIn(scene_keywords[i].words, user_input)}
    IN  IF hits # {} THEN scene_keywords[SetMin(hits)].scene
        ELSE DictGet(key_context, "scene", UnknownScene)

\* _extract_operation(user_input)
ExtractOperation(user_input) ==
    LET hits == {i \in 1 .. Len(operation_keywords) :
                    AnyKeywordIn(operation_keywords[i].words, user_input)}
    IN  IF hits # {} THEN operation_keywords[SetMin(hits)].operation ELSE OpUnspec

\* _extract_time_range(user_input)
ExtractTimeRange(user_input) ==
    IF \E i \in 1 .. Len(user_input) : user_input[i] = "t2024" THEN "2024-02"
    ELSE TimeUnspec

\* _fill_missing_info(parse_result, key_context)
FillMissingInfo(parse_result, key_context) ==
    [parse_result EXCEPT
        !.scene = IF @ = UnknownScene /\ key_context.scene # NotMentioned
                  THEN key_context.scene ELSE @,
        !.time_range = IF @ = TimeUnspec /\ key_context.time_range # NotMentioned
                       THEN key_context.time_range ELSE @,
        !.operation = IF @ = OpUnspec THEN "aggregate" ELSE @]

\* parse_nl(), on the key context extract_key_context() returned.
parse_nl(key_context) ==
    LET user_input == Strip(key_context.current_user_input)
    IN  IF user_input = <<>>
        THEN [parse_status |-> "failed", scene |-> "", time_range |-> "",
              operation |-> "", raw_input |-> <<>>]
        ELSE FillMissingInfo(
                 [parse_status |-> "success",
                  scene |-> ExtractScene(user_input, key_context),
                  time_range |-> ExtractTimeRange(user_input),
                  operation |-> ExtractOperation(user_input),
                  raw_input |-> user_input],
                 key_context)

\* validate_parse_result(parse_result): whether the result is valid.
validate_parse_result(parse_result) ==
    /\ parse_result.parse_status = "success"
    /\ parse_result.scene \notin {UnknownScene, ""}

\* _map_operation_to_task_type(operation)
MapOperationToTaskType(operation) ==
    CASE operation = "aggregate" -> "nl2sql"
      [] operation = "trend"     -> "auto_analysis"
      [] operation = "report"    -> "auto_analysis"
      [] operation = "detect"    -> "auto_analysis"
      [] OTHER                   -> "auto_analysis"

\* The keys of TaskStructor._task_type_to_mcp.
structor_task_types == {"nl2sql", "auto_analysis", "sandbox_execute"}

\* convert_to_task(): raises when the parse result is not valid; else the
\* Task with the default MCP configuration.
convert_to_task(key_context) ==
    TheOnly({ IF ~validate_parse_result(parse_result)
              THEN [raised |-> "Exception", task |-> <<>>]
              ELSE [raised |-> "none",
                    task |-> [task_id |-> "t1",
                              task_type |-> MapOperationToTaskType(parse_result.operation),
                              scene |-> parse_result.scene,
                              mcp_config |-> "default_mcp_config",
                              params |-> [time_range |-> parse_result.time_range,
                                          operation |-> parse_result.operation,
                                          raw_input |-> parse_result.raw_input],
                              priority |-> 2, status |-> "pending"]]
              : parse_result \in {parse_nl(key_context)} })

\* validate_task(task): whether the task is valid.
validate_task(task) ==
    /\ task.task_type # "" /\ task.task_type \in structor_task_types
    /\ task.scene \notin {UnknownScene, ""}
    /\ task.mcp_config # ""

NpNoCall ==
    [op |-> "none", key_context |-> <<>>, parse_result |-> <<>>, valid |-> FALSE,
     raised |-> "none", task |-> <<>>, task_valid |-> FALSE, why |-> ""]

NpIdle == npLast = NpNoCall

\* nl_parser.parse_nl() and validate_parse_result on what it returned.
np_parse ==
    /\ \E key_context \in {KeyContext(short_term_memory)} :
       \E parse_result \in {parse_nl(key_context)} :
          npLast' = [NpNoCall EXCEPT !.op = "parse_nl", !.key_context = key_context,
                                     !.parse_result = parse_result,
                                     !.valid = validate_parse_result(parse_result)]
    /\ UNCHANGED memVars
    /\ NpFrame

\* task_structor.convert_to_task(), validate_task on the Task, and the
\* pipeline dispatcher's dispatch(task.to_dict()) for a Task found valid.
np_convert ==
    /\ \E key_context \in {KeyContext(short_term_memory)} :
       \E c \in {convert_to_task(key_context)} :
          IF c.raised # "none"
          THEN npLast' = [NpNoCall EXCEPT !.op = "convert_to_task",
                                          !.key_context = key_context,
                                          !.raised = c.raised]
          ELSE \E d \in {IF validate_task(c.task)
                         THEN Dispatch(PdState(<<>>, 0, 0, <<>>), <<"ok">>, c.task).why
                         ELSE ""} :
               npLast' = [NpNoCall EXCEPT !.op = "convert_to_task",
                                          !.key_context = key_context,
                                          !.valid = TRUE, !.task = c.task,
                                          !.task_valid = validate_task(c.task),
                                          !.why = d]
    /\ UNCHANGED memVars
    /\ NpFrame

\* The user inputs the model passes: a sales trend, cost statistics of a
\* month, a report without a scene word, a text without any keyword, a
\* blank one.
NpInputs ==
    { <<"kw_sales", "kw_trend">>, <<"kw_cost", "kw_stat", "t2024">>,
      <<"zh", "kw_report">>, <<"zh">>, <<"sp">> }

NpUpdate ==
    \E user_input \in NpInputs, clear_prev_short \in BOOLEAN :
        /\ update_context(user_input, clear_prev_short)
        /\ UNCHANGED npLast
NpSceneKnown ==
    /\ \E value \in MemScenes \cup {""} : add_short_term_memory("scene", value, TRUE)
    /\ UNCHANGED npLast
NpAddLong ==
    /\ \E scene \in MemScenes, kwargs \in CtxKwargs :
          add_long_term_memory_kwargs(scene, "r1", NoneVal, 1, kwargs)
    /\ UNCHANGED npLast
NpParse == np_parse
NpConvert == np_convert

NextParser ==
    \/ NpUpdate
    \/ NpSceneKnown
    \/ NpAddLong
    \/ NpParse
    \/ NpConvert

(***************************************************************************)
(* Specifications: one per component, the others idle                      *)
(***************************************************************************)

InitMemory    == MemInit /\ SbIdle /\ SqlIdle /\ FacIdle /\ RxIdle /\ ConvIdle /\ SmIdle /\ PdIdle /\ RaIdle /\ CfgIdle /\ PsIdle /\ NpIdle
InitSandbox   == SbInit /\ MemIdle /\ SqlIdle /\ FacIdle /\ RxIdle /\ ConvIdle /\ SmIdle /\ PdIdle /\ RaIdle /\ CfgIdle /\ PsIdle /\ NpIdle
InitSql       == SqlInit /\ MemIdle /\ SbIdle /\ FacIdle /\ RxIdle /\ ConvIdle /\ SmIdle /\ PdIdle /\ RaIdle /\ CfgIdle /\ PsIdle /\ NpIdle
InitFacade    == FacInit /\ MemIdle /\ SbIdle /\ SqlIdle /\ RxIdle /\ ConvIdle /\ SmIdle /\ PdIdle /\ RaIdle /\ CfgIdle /\ PsIdle /\ NpIdle
InitReactLoop == RxInit /\ MemIdle /\ SbIdle /\ SqlIdle /\ FacIdle /\ ConvIdle /\ SmIdle /\ PdIdle /\ RaIdle /\ CfgIdle /\ PsIdle /\ NpIdle
InitConversation == ConvInit /\ MemIdle /\ SbIdle /\ SqlIdle /\ FacIdle /\ RxIdle /\ SmIdle /\ PdIdle /\ RaIdle /\ CfgIdle /\ PsIdle /\ NpIdle
InitContext   == MemInit /\ SbIdle /\ SqlIdle /\ FacIdle /\ RxIdle /\ ConvIdle /\ SmIdle /\ PdIdle /\ RaIdle /\ CfgIdle /\ PsIdle /\ NpIdle
InitMatcher   == SmInit /\ MemIdle /\ SbIdle /\ SqlIdle /\ FacIdle /\ RxIdle /\ ConvIdle /\ PdIdle /\ RaIdle /\ CfgIdle /\ PsIdle /\ NpIdle
InitDispatcher == PdInit /\ MemIdle /\ SbIdle /\ SqlIdle /\ FacIdle /\ RxIdle /\ ConvIdle /\ SmIdle /\ RaIdle /\ CfgIdle /\ PsIdle /\ NpIdle
InitReport    == RaInit /\ MemIdle /\ SbIdle /\ SqlIdle /\ FacIdle /\ RxIdle /\ ConvIdle /\ SmIdle /\ PdIdle /\ CfgIdle /\ PsIdle /\ NpIdle
InitConfig    == CfgInit /\ MemIdle /\ SbIdle /\ SqlIdle /\ RxIdle /\ ConvIdle /\ SmIdle /\ PdIdle /\ RaIdle /\ PsIdle /\ NpIdle
InitPythonSandbox == PsInit /\ MemIdle /\ SbIdle /\ SqlIdle /\ FacIdle /\ RxIdle /\ ConvIdle /\ SmIdle /\ PdIdle /\ RaIdle /\ CfgIdle /\ NpIdle
InitParser    == MemInit /\ NpIdle /\ SbIdle /\ SqlIdle /\ FacIdle /\ RxIdle /\ ConvIdle /\ SmIdle /\ PdIdle /\ RaIdle /\ CfgIdle /\ PsIdle

SpecMemory  == InitMemory /\ [][NextMemory]_vars
SpecSandbox == InitSandbox /\ [][NextSandbox]_vars
SpecSql     == InitSql /\ [][NextSql]_vars
SpecFacade  == InitFacade /\ [][NextFacade]_vars
SpecReactLoop == InitReactLoop /\ [][NextReactLoop]_vars
SpecConversation == InitConversation /\ [][NextConversation]_vars
SpecContext == InitContext /\ [][NextContext]_vars
SpecMatcher == InitMatcher /\ [][NextMatcher]_vars
SpecDispatcher == InitDispatcher /\ [][NextDispatcher]_vars
SpecReport  == InitReport /\ [][NextReport]_vars
SpecConfig  == InitConfig /\ [][NextConfig]_vars
SpecPythonSandbox == InitPythonSandbox /\ [][NextPythonSandbox]_vars
SpecParser  == InitParser /\ [][NextParser]_vars

(***************************************************************************)
(* Claims about the MemoryStore                                            *)
(***************************************************************************)

\* The last n items of l, in order (all of l when n >= Len(l)).
LastN(l, n) == SubSeq(l, Len(l) - Min(n, Len(l)) + 1, Len(l))

\* C10: for every N >= 0 and every long-term list L, after
\* clear_expired_long_term_memory(keep_latest_n=N) the list has length
\* min(N, |L|) and equals the last N items of L in their original order.
C10_TrimKeepsLastN ==
    (memLast.op = "clear_expired" /\ memLast.n >= 0) =>
        /\ Len(long_term_memory) = Min(memLast.n, Len(memLast.pre))
        /\ long_term_memory = LastN(memLast.pre, memLast.n)

(***************************************************************************)
(* Claims about the SafePythonSandbox                                      *)
(***************************************************************************)

\* The four screened spellings of an import of module mod.
C4_Spellings(mod) ==
    { <<"import", "sp", mod>>,
      <<"from", "sp", mod, "sp", "import">>,
      <<"import", "sp", mod, "sp", "as">>,
      <<"from", "sp", mod, "sp", ".">> }

C4_Forbidden == {"os", "subprocess", "socket", "shutil", "ctypes", "sysconfig", "pty"}

\* The forbidden modules the script imports in a screened spelling.
C4_Imported(script) ==
    {m \in C4_Forbidden : \E p \in C4_Spellings(m) : Contains(script, p)}

\* C4: for every script that contains an import of a forbidden module in a
\* screened spelling, run_script_in_sandbox returns (false, a message that
\* starts with the safety-failure prefix and names such a module) and neither
\* writes an exec file nor starts a child process.
C4_ForbiddenImportRejected ==
    (sbLast.op = "run" /\ C4_Imported(sbScript) # {}) =>
        /\ sbLast.raised = "none"
        /\ sbLast.ok = FALSE
        /\ Len(sbLast.msg) >= 3
        /\ sbLast.msg[1] = "SAFETY_FAILED"
        /\ sbLast.msg[2] = "FORBIDDEN_MODULE"
        /\ sbLast.msg[3] \in C4_Imported(sbScript)
        /\ ~sbLast.wroteFile /\ ~sbLast.startedChild
        /\ sbWritten = 0 /\ sbChildren = 0 /\ sbTempFiles = 0

\* A script importing two forbidden modules was run and rejected.
C4_Witness ==
    /\ sbLast.op = "run"
    /\ Cardinality(C4_Imported(sbScript)) = 2
    /\ sbLast.ok = FALSE
    /\ Len(sbLast.msg) >= 3 /\ sbLast.msg[2] = "FORBIDDEN_MODULE"

C5_Functions ==
    {<<"system">>, <<"p", "open">>, <<"spawn">>, <<"fork">>, <<"exec">>,
     <<"eval">>, <<"exec", "file">>}

\* The name occurs as a definition or as a quoted literal.
C5_Exempt(script, f) ==
    \/ Contains(script, <<"def", "sp">> \o f \o <<"(">>)
    \/ Contains(script, <<"class", "sp">> \o f \o <<"(">>)
    \/ Contains(script, <<"dq">> \o f \o <<"dq">>)
    \/ Contains(script, <<"sq">> \o f \o <<"sq">>)
    \/ Contains(script, <<"bq">> \o f \o <<"bq">>)

C5_Named(script) == {f \in C5_Functions : Contains(script, f)}

\* C5: for every script that passes the import screen and contains a
\* forbidden function name other than as a definition or quoted literal,
\* run_script_in_sandbox returns (false, safety failure) without raising and
\* without running the script; a script in which the name occurs only as a
\* definition or quoted literal is not rejected by this check.
C5_ForbiddenFunctionRejected ==
    (sbLast.op = "run" /\ C4_Imported(sbScript) = {} /\ C5_Named(sbScript) # {}) =>
        IF \E f \in C5_Named(sbScript) : ~C5_Exempt(sbScript, f)
        THEN /\ sbLast.raised = "none"
             /\ sbLast.ok = FALSE
             /\ Len(sbLast.msg) >= 1 /\ sbLast.msg[1] = "SAFETY_FAILED"
             /\ ~sbLast.wroteFile /\ ~sbLast.startedChild
        ELSE /\ sbLast.raised = "none"
             /\ ~(Len(sbLast.msg) >= 2 /\ sbLast.msg[2] = "FORBIDDEN_FUNCTION")

\* C19: when the sandbox child process has not exited by the time the
\* configured wall-clock timeout elapses, run_script_in_sandbox returns
\* (false, message) where the message reports the configured timeout value
\* in seconds and differs from the message produced for a non-zero exit
\* code.
C19_TimeoutReported ==
    (sbLast.op = "run" /\ sbLast.child = "timeout") =>
        /\ sbLast.raised = "none"
        /\ ~sbLast.ok
        /\ \E i \in 1 .. Len(sbLast.msg) - 1 :
              sbLast.msg[i] = "TIMEOUT" /\ sbLast.msg[i + 1] = ToString(sbTimeout)
        /\ \A i \in 1 .. Len(sbLast.msg) : sbLast.msg[i] # "RETURN_CODE"
        /\ sbLast.msg # <<"RUN_ERROR", "RETURN_CODE", "STDOUT_STDERR">>

\* A run whose child ran into a timeout other than the default one.
C19_Witness ==
    /\ sbLast.op = "run"
    /\ sbLast.child = "timeout"
    /\ sbTimeout # DefaultSandboxTimeout
    /\ sbLast.startedChild

\* s is what remains of l after dropping items from its front.
C18_IsSuffix(s, l) ==
    \E k \in 0 .. Len(l) : s = SubSeq(l, k + 1, Len(l))

\* C18: across any sequence of MemoryStore operations the long-term list
\* stays a contiguous suffix, in append order, of everything appended:
\* every operation leaves the list as it was, except add_long_term_memory,
\* which puts one item behind the unchanged earlier ones, and
\* clear_expired_long_term_memory, which removes items from the oldest end
\* only and leaves the remaining items as they were appended.
C18_SuffixOfAppended ==
    [][ \/ long_term_memory' = long_term_memory
        \/ /\ memLast'.op = "add_long"
           /\ Len(long_term_memory') = Len(long_term_memory) + 1
           /\ SubSeq(long_term_memory', 1, Len(long_term_memory)) = long_term_memory
        \/ /\ memLast'.op = "clear_expired"
           /\ Len(long_term_memory') < Len(long_term_memory)
           /\ C18_IsSuffix(long_term_memory', long_term_memory) ]_vars

\* A trim of three items, the oldest unlike the newest, that left only the
\* newest one.
C18_Witness ==
    /\ memLast.op = "clear_expired"
    /\ Len(memLast.pre) = 3
    /\ memLast.pre[1] # memLast.pre[3]
    /\ long_term_memory = <<memLast.pre[3]>>

(***************************************************************************)
(* Claims about the SQLGenerator                                           *)
(***************************************************************************)

C6_Keywords == { <<"d", "r", "o", "p">>, <<"d", "e", "l", "e", "t", "e">>, <<"t", "r", "u", "n", "c", "a", "t", "e">>, <<"a", "l", "t", "e", "r">> }

\* The text holds one of the four keywords in some letter case.
C6_HasKeyword(sql) ==
    \E k \in C6_Keywords : \E i \in 1 .. (Len(sql) - Len(k) + 1) :
        \A j \in 1 .. Len(k) : ToLower(sql[i + j - 1]) = k[j]

\* The statement execute generates for the task in hand.
C6_Statement ==
    GenerateSql(sqlTask.query_demand, sqlTask.wide_table, sqlTask.time_range,
                sqlTask.field_mapping, sqlTimeField)

\* C6: _verify_sql is false for every generated statement holding DROP,
\* DELETE, TRUNCATE or ALTER in any letter case and true for a plain
\* SELECT ... WHERE statement, and execute never passes a statement that
\* failed the gate to _execute_sql: it returns a failed envelope instead.
C6_VerifyGate ==
    /\ VerifySql(C6_Statement) = ~C6_HasKeyword(C6_Statement)
    /\ \A s \in sqlExecuted : ~C6_HasKeyword(s)
    /\ (sqlLast.op = "execute" /\ sqlInitialized /\ sqlTask.query_demand # <<>>
            /\ sqlTask.wide_table # <<>> /\ C6_HasKeyword(C6_Statement)) =>
          /\ sqlLast.ret.status = "failed"
          /\ sqlLast.ret.error_msg = "SQL_NOT_COMPLIANT"
          /\ C6_Statement \notin sqlExecuted

\* A statement holding a keyword in mixed case was refused by execute.
C6_Witness ==
    /\ sqlLast.op = "execute"
    /\ sqlLast.ret.error_msg = "SQL_NOT_COMPLIANT"
    /\ C6_HasKeyword(C6_Statement)
    /\ ~Contains(C6_Statement, <<"D", "E", "L", "E", "T", "E">>)
    /\ Contains(Upper(C6_Statement), <<"D", "E", "L", "E", "T", "E">>)

(***************************************************************************)
(* Claims about the bootstrap facade                                       *)
(***************************************************************************)

\* C3: in every state of the facade (never initialized, initialized, failed
\* init, closed) and for every input text, chat returns a string and lets
\* no exception reach the caller; a reply to a failure opens with the
\* failure sign.
C3_ChatNeverRaises ==
    facLast.op = "chat" =>
        /\ facLast.raised = "none"
        /\ facLast.ret = "str"
        /\ facLast.text # <<>>
        /\ Head(facLast.text) \in {FacCross, FacCheck}

C1_Reply(k) == Strip(OutcomeAt(rxLast.script, k).content)

\* A reply holds a Final Answer match: the literal with something after it.
C1_HasFinal(reply) == \E i \in 1 .. Len(reply) - 1 : reply[i] = "FA"

\* The final text of a reply: what follows the first literal, trimmed.
C1_FinalText(reply) ==
    LET i == CHOOSE j \in 1 .. Len(reply) :
                 reply[j] = "FA" /\ \A h \in 1 .. j - 1 : reply[h] # "FA"
    IN  Strip(SubSeq(reply, i + 1, Len(reply)))

\* The calls whose reply holds a Final Answer, among the first n.
C1_Finals(n) == {k \in 1 .. n : C1_HasFinal(C1_Reply(k))}

\* C1: for every sequence of LLM replies and every max_iterations >= 0,
\* run_react_agent makes at most max_iterations LLM calls; with no Final
\* Answer among the replies it makes exactly max_iterations calls and returns
\* the literal '任务未完成。'; with the k-th reply the first to hold one it
\* makes exactly k calls and returns that reply's final text.
C1_BoundedCalls ==
    (rxLast.op = "run_react_agent" /\ rxLast.raised = "none") =>
        LET n == rxLast.max_iterations
        IN  /\ rxLast.calls <= n
            /\ C1_Finals(n) = {} =>
                   /\ rxLast.calls = n
                   /\ rxLast.ret = <<"UNFINISHED">>
            /\ C1_Finals(n) # {} =>
                   LET k == CHOOSE j \in C1_Finals(n) : \A h \in C1_Finals(n) : j <= h
                   IN  /\ rxLast.calls = k
                       /\ rxLast.ret = C1_FinalText(C1_Reply(k))

\* A run under the cap of 2 whose second reply was the first with a Final
\* Answer, and a run that used up the default cap.
C1_Witness ==
    /\ rxLast.op = "run_react_agent"
    /\ rxLast.raised = "none"
    /\ \/ /\ rxLast.max_iterations = 2
          /\ C1_Finals(2) = {2}
          /\ rxLast.calls = 2
          /\ rxLast.ret = <<"x", "dq", "nl", "x">>
       \/ /\ rxLast.max_iterations = AgentMaxIterations
          /\ rxLast.calls = AgentMaxIterations
          /\ rxLast.ret = <<"UNFINISHED">>

\* C2: when the first LLM reply holds a Final Answer, run_react_agent
\* returns the text captured after it, and the returned history is the seed
\* history followed by exactly two entries: the user query, then one
\* assistant entry holding the raw reply.
C2_FirstReplyFinal ==
    (/\ rxLast.op = "run_react_agent"
     /\ rxLast.raised = "none"
     /\ rxLast.max_iterations >= 1
     /\ C1_HasFinal(C1_Reply(1))) =>
        LET seed == IF rxLast.historyIsNone
                    THEN <<[role |-> "system", content |-> <<"SYSTEM_PROMPT">>]>>
                    ELSE rxLast.seed
        IN  /\ rxLast.ret = C1_FinalText(C1_Reply(1))
            /\ rxLast.history =
                   seed \o << [role |-> "user", content |-> rxLast.query],
                              [role |-> "assistant", content |-> C1_Reply(1)] >>

\* A run on a three-entry seed whose first reply held both an Action and a
\* Final Answer.
C2_Witness ==
    /\ rxLast.op = "run_react_agent"
    /\ rxLast.raised = "none"
    /\ rxLast.max_iterations >= 1
    /\ Len(rxLast.seed) = 3
    /\ C1_HasFinal(C1_Reply(1))
    /\ C1_Reply(1)[1] = "ACT"
    /\ Len(rxLast.history) = 5

(***************************************************************************)
(* Claims about the ConversationManager and the ReAct TaskDispatcher       *)
(***************************************************************************)

\* Every call made on the manager so far was an append_message that returned.
C8_OnlyAppends ==
    \A i \in 1 .. Len(convTrace) :
        convTrace[i].op = "append_message" /\ convTrace[i].raised = "none"

RECURSIVE C9_TotalOf(_, _)
C9_TotalOf(h, S) ==
    IF S = {} THEN 0
    ELSE IF Cardinality(S) = 1 THEN TextLen(h[CHOOSE i \in S : TRUE].content)
    ELSE LET low == {i \in S : 2 * Cardinality({j \in S : j < i}) < Cardinality(S)}
         IN  C9_TotalOf(h, low) + C9_TotalOf(h, S \ low)
C9_Total(h) == C9_TotalOf(h, 1 .. Len(h))

\* C9: when summarize_if_long finds the history over budget (sum of content
\* lengths > 4 * max_tokens), the history afterwards is one system-role
\* summary entry followed by the 5 most recent earlier entries unchanged, and
\* it is strictly shorter than before the call; within budget the history is
\* left unchanged and no LLM call is made.
C9_SummaryShortens ==
    (convLast.op = "summarize_if_long" /\ convLast.raised = "none") =>
        IF C9_Total(convLast.pre) > 4 * convLast.max_tokens
        THEN /\ Len(convHistory) = 6
             /\ convHistory[1].role = "system"
             /\ Len(convLast.pre) >= 5
             /\ SubSeq(convHistory, 2, 6)
                    = SubSeq(convLast.pre, Len(convLast.pre) - 4, Len(convLast.pre))
             /\ Len(convHistory) < Len(convLast.pre)
        ELSE /\ convHistory = convLast.pre
             /\ convLast.sumCalls = 0

\* C7: every dispatch that returns grows the manager's history by exactly
\* two entries, the user query and one assistant reply, on the simple path
\* and on the complex path alike; from the single seed entry the history has
\* 5 entries after two dispatches.
C7_DispatchAddsTwo ==
    /\ (convLast.op = "dispatch" /\ convLast.raised = "none") =>
           convHistory = convLast.pre \o << [role |-> "user", content |-> convLast.query],
                                           [role |-> "assistant", content |-> convLast.ret] >>
    /\ (/\ convStart = <<[role |-> "system", content |-> <<"SEED">>]>>
        /\ Len(convTrace) = 2
        /\ \A i \in 1 .. 2 : convTrace[i].op = "dispatch" /\ convTrace[i].raised = "none") =>
           Len(convHistory) = 5

(***************************************************************************)
(* Claims about the ContextManager                                         *)
(***************************************************************************)

\* Whether the text mentions word, in any case.
C11_Mentions(text, word) == Contains(Lower(text), word)

\* C11: when the long-term memory is non-empty and the current input
\* mentions neither scene nor time, then after update_context(input)
\* extract_key_context() returns the scene and the time_range of the most
\* recently appended long-term item, not the "not mentioned" sentinel.
C11_ContextCompleted ==
    [][ ( /\ memLast.op = "update_context"
          /\ memLast'.op = "extract_key_context"
          /\ memLast.ret[2]
          /\ Strip(memLast.ret[1]) # <<>>
          /\ ~C11_Mentions(memLast.ret[1], <<"s", "c", "e", "n", "e">>)
          /\ ~C11_Mentions(memLast.ret[1], <<"t", "i", "m", "e">>)
          /\ long_term_memory # <<>>
          /\ "time_range" \in DOMAIN long_term_memory[Len(long_term_memory)] )
        => /\ memLast'.ret[1].scene = long_term_memory[Len(long_term_memory)].scene
           /\ memLast'.ret[1].time_range
                 = long_term_memory[Len(long_term_memory)].time_range ]_vars

(***************************************************************************)
(* Claims about the ScenarioMatcher                                        *)
(***************************************************************************)

\* The calls of match_scene_to_table that returned.
C12_Returned == {i \in 1 .. Len(smReturned) : smReturned[i].raised = "none"}

\* C12: match_scene_to_table never modifies the Task it is given: after any
\* number of calls on the same task, task.params is unchanged and holds no
\* wide_table key, every call returns a new Task, and the calls made under
\* one scene mapping return identical content.
C12_OriginalUntouched ==
    smTask # SmNoTask =>
        /\ smHeap[smTask.params] = smGiven
        /\ "wide_table" \notin DOMAIN smHeap[smTask.params]
        /\ \A i \in C12_Returned :
              /\ smReturned[i].task.params # smTask.params
              /\ "wide_table" \in DOMAIN smReturned[i].params
              /\ \A j \in C12_Returned :
                    /\ i # j => smReturned[i].task.params # smReturned[j].task.params
                    /\ smReturned[i].mapping = smReturned[j].mapping =>
                          /\ smReturned[i].params = smReturned[j].params
                          /\ [smReturned[i].task EXCEPT !.params = 0]
                                = [smReturned[j].task EXCEPT !.params = 0]

\* Two calls on one task returned, and a caller has written into the params
\* of the first result.
C12_Witness ==
    /\ Cardinality(C12_Returned) >= 2
    /\ \E i \in C12_Returned :
          "prev_task_result" \in DOMAIN smHeap[smReturned[i].task.params]

(***************************************************************************)
(* Claims about the pipeline TaskDispatcher                                *)
(***************************************************************************)

\* The value the loop of dispatch_series left under params["prev_task_result"]
\* of the i-th task of the last call.
C14_Threaded(i) == pdLast.tasks[i].params.prev_task_result

\* C14: in dispatch_series, for every task at position i > 0 the value
\* stored under params["prev_task_result"] is the full result of the task
\* at position i-1 if that task finished with status success, and an empty
\* map otherwise; the first task receives an empty map.
C14_PrevResultThreaded ==
    (pdLast.op = "dispatch_series" /\ pdLast.raised = "none") =>
        \A i \in 1 .. Len(pdLast.tasks) :
            "params" \in DOMAIN pdLast.tasks[i] =>
                IF i > 1 /\ pdLast.result_list[i - 1].status = "success"
                THEN C14_Threaded(i) = pdLast.result_list[i - 1]
                ELSE DOMAIN C14_Threaded(i) = {}

\* The task id dispatch_series reads from the i-th task it was given.
C15_TaskId(i) ==
    DictGet(pdLast.given[i], "task_id", "unknown_task_" \o ToString(i - 1))

\* Whether dispatch raises for the i-th task whatever the modules do: the
\* task names no kind the dispatcher knows.
C15_Unsupported(i) ==
    DictGet(pdLast.given[i], "task_type", "unknown_type") \notin DOMAIN task_type_to_mcp

\* C15: for every non-empty task list, dispatch_series returns a list with
\* exactly one result per input task in input order; a task whose dispatch
\* raises contributes an entry with status "failed" carrying its task id and
\* error message, and every later task is still dispatched.
C15_OneResultPerTask ==
    (pdLast.op = "dispatch_series" /\ pdLast.given # <<>>) =>
        /\ pdLast.raised = "none"
        /\ Len(pdLast.result_list) = Len(pdLast.given)
        /\ \A i \in 1 .. Len(pdLast.given) :
              /\ pdLast.result_list[i].status \in {"success", "failed"}
              /\ "task_id" \in DOMAIN pdLast.given[i] =>
                    pdLast.result_list[i].task_id = pdLast.given[i].task_id
              /\ "params" \in DOMAIN pdLast.given[i] => pdLast.dispatched[i]
              /\ ("params" \in DOMAIN pdLast.given[i] /\ C15_Unsupported(i)) =>
                    /\ pdLast.result_list[i].status = "failed"
                    /\ pdLast.result_list[i].task_id = C15_TaskId(i)
                    /\ pdLast.result_list[i].error_msg # ""
              /\ "mcp_module" \notin DOMAIN pdLast.result_list[i] =>
                    /\ pdLast.result_list[i].status = "failed"
                    /\ pdLast.result_list[i].task_id = C15_TaskId(i)
                    /\ pdLast.result_list[i].error_msg # ""

\* A series of three tasks in which the second raised and the third was
\* dispatched and came back.
C15_Witness ==
    /\ pdLast.op = "dispatch_series"
    /\ Len(pdLast.given) >= 3
    /\ "mcp_module" \notin DOMAIN pdLast.result_list[2]
    /\ pdLast.dispatched[3]
    /\ "mcp_module" \in DOMAIN pdLast.result_list[3]

\* The positions of the log after position p up to, not including, the next
\* close_all_mcp_instances.
C16_Since(p) ==
    {q \in p + 1 .. Len(pdLog) : \A c \in p + 1 .. q : pdLog[c].ev # "clear"}

\* The first position after p at which a module of the kind of p is
\* initialised or executes, as a set of at most one position.
C16_NextUse(p) ==
    {q \in p + 1 .. Len(pdLog) :
        /\ pdLog[q].ev \in {"init", "execute"} /\ pdLog[q].kind = pdLog[p].kind
        /\ \A o \in p + 1 .. q - 1 :
              ~(pdLog[o].ev \in {"init", "execute"} /\ pdLog[o].kind = pdLog[p].kind)}

\* C16: across any sequence of dispatch calls with no intervening
\* close_all_mcp_instances, at most one module instance per kind is ever
\* placed in the cache and every later dispatch of that kind reuses it
\* without calling init again; a module whose init returns false is never
\* placed in the cache, the dispatch raises a task-execution error, and the
\* next dispatch of that kind constructs and initialises a fresh instance.
C16_CacheSingleton ==
    /\ \A p \in 1 .. Len(pdLog) :
          /\ (pdLog[p].ev = "init" /\ pdLog[p].ok) =>
                \A q \in C16_Since(p) :
                    pdLog[q].kind = pdLog[p].kind =>
                        (pdLog[q].ev # "init" /\ pdLog[q].id = pdLog[p].id)
          /\ (pdLog[p].ev = "init" /\ ~pdLog[p].ok) =>
                /\ \A k \in DOMAIN pdInstances : pdInstances[k] # pdLog[p].id
                /\ \A q \in C16_NextUse(p) :
                      pdLog[q].ev = "init" /\ pdLog[q].id > pdLog[p].id
    /\ \A k \in DOMAIN pdInstances :
          \E p \in 1 .. Len(pdLog) :
              /\ pdLog[p].ev = "init" /\ pdLog[p].ok
              /\ pdLog[p].kind = k /\ pdLog[p].id = pdInstances[k]
              /\ \A q \in p + 1 .. Len(pdLog) : pdLog[q].ev # "clear"
    /\ (pdLast.op = "dispatch" /\ Len(pdLog) > pdLast.logged
        /\ pdLog[Len(pdLog)].ev = "init") =>
          (~pdLog[Len(pdLog)].ok /\ pdLast.raised = "TaskExecuteException")

\* An init that returned false, then a fresh instance of the same kind whose
\* init returned true, then two executions on that instance.
C16_Witness ==
    \E p, q, r, t \in 1 .. Len(pdLog) :
        /\ p < q /\ q < r /\ r < t
        /\ pdLog[p].ev = "init" /\ ~pdLog[p].ok
        /\ pdLog[q].ev = "init" /\ pdLog[q].ok /\ pdLog[q].kind = pdLog[p].kind
        /\ pdLog[r].ev = "execute" /\ pdLog[r].id = pdLog[q].id
        /\ pdLog[t].ev = "execute" /\ pdLog[t].id = pdLog[q].id
        /\ \A c \in p .. t : pdLog[c].ev # "clear"

\* The kind the task of the last dispatch names.
C17_Kind == DictGet(pdLast.given[1], "task_type", "unknown_type")

\* C17: dispatch raises a task-execution error only when the task kind is
\* unsupported or the module's init fails; every failure that occurs while a
\* processing module executes a task is returned to the caller as an
\* envelope with status "failed" and a non-empty error message, not raised.
C17_ExecuteFailureReturned ==
    pdLast.op = "dispatch" =>
        /\ pdLast.raised # "none" =>
              /\ pdLast.raised = "TaskExecuteException"
              /\ C17_Kind \notin DOMAIN task_type_to_mcp \/ pdLast.why = "init"
        /\ (Len(pdLog) > pdLast.logged /\ pdLog[Len(pdLog)].ev = "execute"
            /\ ~pdLog[Len(pdLog)].ok) =>
              /\ pdLast.raised = "none"
              /\ pdLast.ret.status = "failed"
              /\ pdLast.ret.error_msg # ""

\* A dispatch whose module failed while it executed the task.
C17_Witness ==
    /\ pdLast.op = "dispatch"
    /\ pdLast.raised = "none"
    /\ pdLast.ret.status = "failed"
    /\ Len(pdLog) > pdLast.logged
    /\ pdLog[Len(pdLog)].ev = "execute"
    /\ ~pdLog[Len(pdLog)].ok

(***************************************************************************)
(* Claims about tool errors in the ReAct loop                              *)
(***************************************************************************)

\* The parse of the k-th reply of the last call.
C20_Parsed(k) == parse_llm_response(C1_Reply(k))

\* The k-th reply is an Action whose tool is unregistered or raises.
C20_Failing(k) ==
    /\ OutcomeAt(rxLast.script, k).ok
    /\ C20_Parsed(k).type = "action"
    /\ \/ C20_Parsed(k).tool_name \notin TOOL_DICT
       \/ rxArgs.toolOutcome = "raise"

\* The observation text for the k-th reply's failing Action.
C20_ErrorText(k) ==
    IF C20_Parsed(k).tool_name \notin TOOL_DICT
    THEN <<"ERR_UNKNOWN_TOOL", "sq">> \o C20_Parsed(k).tool_name \o <<"sq", "STOP">>
    ELSE <<"ERR_TOOL_FAILED", "x">>

\* The number of entries the history holds when the loop starts.
C20_Base ==
    (IF rxLast.historyIsNone THEN 1 ELSE Len(rxLast.seed)) + 1

\* C20: an Action naming an unregistered tool, or whose tool raises, never
\* aborts run_react_agent: the call raises nothing on its account, the
\* assistant entry with the reply is followed directly by a user entry
\* "Observation: " plus the fixed error text, and while iterations remain
\* the loop makes its next request.
C20_ToolErrorObserved ==
    rxLast.op = "run_react_agent" =>
        \A k \in 1 .. rxLast.calls :
            C20_Failing(k) =>
                /\ rxLast.raised # "none" => (rxLast.calls > k /\ ~OutcomeAt(rxLast.script, rxLast.calls).ok)
                /\ Len(rxLast.history) >= C20_Base + 2 * k
                /\ rxLast.history[C20_Base + 2 * k - 1] = Msg("assistant", C1_Reply(k))
                /\ rxLast.history[C20_Base + 2 * k] =
                       Msg("user", <<"OBS">> \o C20_ErrorText(k))
                /\ k < rxLast.max_iterations => rxLast.calls >= k + 1

\* A call whose first reply names an unregistered tool and whose second
\* reply runs a tool that raises, and that went on to a third request.
C20_Witness ==
    /\ rxLast.op = "run_react_agent"
    /\ rxLast.raised = "none"
    /\ rxArgs.toolOutcome = "raise"
    /\ rxLast.calls >= 3
    /\ C20_Failing(1) /\ C20_Parsed(1).tool_name \notin TOOL_DICT
    /\ C20_Failing(2) /\ C20_Parsed(2).tool_name \in TOOL_DICT

(***************************************************************************)
(* Claims about the classification of replies                              *)
(***************************************************************************)

\* The k-th reply of the last call arrived and holds an Action match.
C21_HasAction(k) ==
    OutcomeAt(rxLast.script, k).ok /\ ActionStarts(C1_Reply(k)) # {}

\* The k-th reply of the last call arrived and holds a Final Answer match.
C21_HasFinalMatch(k) ==
    OutcomeAt(rxLast.script, k).ok /\ FinalStarts(C1_Reply(k)) # {}

\* C21: parse_llm_response classifies every reply as exactly one of final,
\* action or none, the Final Answer pattern first: a reply matching both
\* patterns is final (and ends the loop), and a tool runs in an iteration
\* only if its reply holds an Action match and no Final Answer match, so the
\* tools run as often as there are such replies.
C21_FinalBeforeAction ==
    rxLast.op = "run_react_agent" =>
        /\ \A k \in 1 .. rxLast.calls :
              OutcomeAt(rxLast.script, k).ok =>
                  LET p == parse_llm_response(C1_Reply(k))
                  IN  /\ p.type \in {"final", "action", "none"}
                      /\ (p.type = "final") = C21_HasFinalMatch(k)
                      /\ (p.type = "action") = (C21_HasAction(k) /\ ~C21_HasFinalMatch(k))
                      /\ (p.type = "none") = (~C21_HasAction(k) /\ ~C21_HasFinalMatch(k))
                      /\ C21_HasFinalMatch(k) => rxLast.calls = k
        /\ rxLast.toolRuns =
              Cardinality({k \in 1 .. rxLast.calls :
                              C21_HasAction(k) /\ ~C21_HasFinalMatch(k)})

\* A call whose first reply ran a tool and whose second reply, matching
\* both patterns, ended the loop without running one.
C21_Witness ==
    /\ rxLast.op = "run_react_agent"
    /\ rxLast.raised = "none"
    /\ rxLast.calls = 2
    /\ C21_HasAction(1) /\ ~C21_HasFinalMatch(1)
    /\ C21_HasAction(2) /\ C21_HasFinalMatch(2)
    /\ rxLast.toolRuns = 1

(***************************************************************************)
(* Claims about the routing of dispatch                                    *)
(***************************************************************************)

\* C22: dispatch routes a query holding a complex keyword to the ReAct loop
\* without a classification call; any other query costs exactly one
\* classification call, whose failure routes it to the simple path; on the
\* simple path dispatch makes exactly one further LLM call and raises
\* nothing, and what it returns, the reply or the inline error text of a
\* failed call, is the assistant entry appended after the user entry.  A
\* dispatch that took no path is one whose write of the user entry failed.
C22_Routing ==
    convLast.op = "dispatch" =>
        /\ HasComplexKeyword(convLast.query) =>
               /\ convLast.clsCalls = 0
               /\ convLast.path \in {"complex", ""}
               /\ convLast.path = "" => convLast.raised # "none"
        /\ ~HasComplexKeyword(convLast.query) =>
               /\ convLast.clsCalls = 1
               /\ convLast.clsFailed => convLast.path \in {"simple", ""}
               /\ convLast.path = "" => convLast.raised # "none"
        /\ convLast.path = "simple" =>
               /\ convLast.raised = "none"
               /\ convLast.llmCalls = 1
               /\ convLast.sumCalls = 0
               /\ convHistory = convLast.pre \o <<Msg("user", convLast.query),
                                                  Msg("assistant", convLast.ret)>>

\* A query without keyword whose classification call failed and whose
\* direct call failed too: the error text is returned and appended.
C22_Witness ==
    /\ convLast.op = "dispatch"
    /\ ~HasComplexKeyword(convLast.query)
    /\ convLast.clsFailed
    /\ convLast.path = "simple"
    /\ convLast.ret = <<"SIMPLE_FAILED", "ERRTEXT">>
    /\ convHistory[Len(convHistory)] = Msg("assistant", <<"SIMPLE_FAILED", "ERRTEXT">>)

\* A query holding a keyword in upper case letters that went to the loop.
C22_WitnessKeyword ==
    /\ convLast.op = "dispatch"
    /\ HasComplexKeyword(convLast.query)
    /\ convLast.path = "complex"
    /\ convLast.llmCalls >= 1

(***************************************************************************)
(* Claims about the ReportAgent                                            *)
(***************************************************************************)

\* C23: adapting a cost-analysis task whose rule list already holds the
\* compliance rule, as the list of a task adapted before does, leaves the
\* rule list unchanged.
C23_AdaptOnlyIfAbsent ==
    ( /\ raLast.op \in {"adapt", "execute"}
      /\ raLast.scene = "cost_analysis"
      /\ raLast.ret \in {"True", "result"}
      /\ AppendedRule \in Elems(raLast.before) ) =>
        raLast.after = raLast.before

C24_FirstLoadWins ==
    cfgLast.op = "get" =>
        /\ cfgLast.loadedBefore # "no" =>
               /\ ~cfgLast.read
               /\ cfgLast.raised = "none"
               /\ cfgLast.value = cfgLast.loadedBefore
        /\ cfgLast.failedBefore => cfgLast.read

(***************************************************************************)
(* Claims about the PythonSandbox module                                   *)
(***************************************************************************)

\* C25: after execute calls followed by close (temporary scripts not
\* configured to be kept), every script file made by an execute with
\* save_script false is gone, and every script file made by an execute with
\* save_script true and reported in output_files is still on disk.
C25_CloseKeepsSavedOnly ==
    (psLast.op = "close" /\ ~psKeepTemp) =>
        \A i \in 1 .. Len(psMade) :
            psMade[i].path # PsNoPath =>
                /\ ~psMade[i].save_script => psMade[i].path \notin psFiles
                /\ (psMade[i].save_script /\ psMade[i].reported) => psMade[i].path \in psFiles

(***************************************************************************)
(* Claims about the NLParser and the TaskStructor                          *)
(***************************************************************************)

\* C26: a Task that convert_to_task produced and validate_task accepted has
\* a task kind the pipeline dispatcher supports: dispatching its dictionary
\* form does not fail for an unsupported task kind.
C26_ValidTaskSupported ==
    (npLast.op = "convert_to_task" /\ npLast.raised = "none" /\ npLast.task_valid) =>
        /\ npLast.task.task_type \in DOMAIN task_type_to_mcp
        /\ npLast.why # "unsupported"

\* The input of the last parse holds no scene keyword.
C29_NoSceneWord ==
    \A i \in 1 .. Len(scene_keywords) :
        ~AnyKeywordIn(scene_keywords[i].words, Strip(npLast.key_context.current_user_input))

\* C29: an input without scene keyword under a context without known scene
\* is rejected by validate_parse_result, and no parse result whose scene is
\* an absent-value sentinel is accepted or turned into a Task.
C29_SentinelRejected ==
    /\ (npLast.op = "parse_nl" /\ C29_NoSceneWord
            /\ npLast.key_context.scene \in {NotMentioned, UnknownScene, ""}) =>
           ~npLast.valid
    /\ (npLast.op = "parse_nl" /\ npLast.valid) =>
           npLast.parse_result.scene \notin {UnknownScene, NotMentioned}
    /\ (npLast.op = "convert_to_task" /\ npLast.raised = "none") =>
           npLast.task.scene \notin {UnknownScene, NotMentioned}

(***************************************************************************)
(* Claims about the persisted session and a failing ReAct loop             *)
(***************************************************************************)

\* No entry of the manager's history holds a character the session file
\* cannot take.
C28_Writable ==
    \A i \in 1 .. Len(convHistory) :
        \A j \in 1 .. Len(convHistory[i].content) : convHistory[i].content[j] # "sur"

\* C28: after a dispatch that returned and after a summarize_if_long call
\* the session document equals the manager's history: a manager constructed
\* then for the same session starts from exactly that history.
C28_PersistedEqualsHistory ==
    (/\ convLast.op \in {"dispatch", "summarize_if_long"}
     /\ convLast.raised = "none"
     /\ C28_Writable) =>
        NewManager(convFile) = [raised |-> "none", history |-> convHistory]

\* C30: a dispatch on the complex path in which an LLM call of the ReAct
\* loop failed did not return a reply, so it leaves the manager's history
\* and the session file as they were before the call.
C30_NoHalfTurn ==
    [][(/\ convTrace' # convTrace
        /\ convLast'.op = "dispatch"
        /\ convLast'.path = "complex"
        /\ convLast'.raised = "RuntimeError"
        /\ convLast'.sumCalls = 0) =>
           (convHistory' = convHistory /\ convFile' = convFile)]_vars

====
